---- MODULE Spec2Model ----
(***************************************************************************)
(* Filter / aggregate layer of the breast-cancer screening dashboard       *)
(* (sections/overview.py, sections/conclusion.py, sections/deep_dives.py). *)
(*                                                                         *)
(* A table is [columns |-> set of column names, rows |-> sequence of rows];*)
(* a row is a record whose fields are exactly the table's columns.         *)
(* A cell that pandas holds as NaN / NA / None is Null, any other cell v   *)
(* is Some(v).  Numbers (rates, medians, differences) are integers in      *)
(* units of 0.25, so 30.0 is 120; input rates are multiples of 0.5, which  *)
(* makes every median and difference exact, as it is in binary floating    *)
(* point.  Strings that the code inspects character by character are       *)
(* sequences of ASCII codes.                                               *)
(***************************************************************************)
EXTENDS Integers, Sequences, FiniteSets, TLC

VARIABLES
  df,          \* the table handed to the helper under study
  countries,   \* the selected countries (multiselect)
  y0,          \* lower year bound (slider), Null when there is no slider
  y1,          \* upper year bound
  src,         \* where df comes from: "load", or the filter that produced it
  val,         \* a raw income_quintile cell
  op,          \* the operation that produced out
  out          \* its result: a table, a value, or Raise(e)

vars == <<df, countries, y0, y1, src, val, op, out>>

-----------------------------------------------------------------------------
(* Bounds of the model *)

MaxRows == 2

-----------------------------------------------------------------------------
(* Cells, tables, outcomes *)

Null == <<>>

Some(v) == <<v>>

Val(c) == c[1]

Table(cols, rows) == [columns |-> cols, rows |-> rows]

Raise(e) == [raise |-> e]

IsTable(t) == DOMAIN t = {"columns", "rows"}

\* df.empty
Empty(d) == Len(d.rows) = 0 \/ d.columns = {}

SeqsUpTo(S, n) == UNION {[1..k -> S] : k \in 0..n}

Project(r, cols) == [c \in cols |-> r[c]]

ProjectRows(rows, cols) == [i \in 1..Len(rows) |-> Project(rows[i], cols)]

\* position of a country code in the sort order of the cleaners
CountryRank(c) == CASE c = "DE" -> 1 [] c = "FR" -> 2

\* sort key of a year cell: missing years sort last
YearKey(c) == IF c = Null THEN 9999 ELSE Val(c)

\* df.sort_values(by=["country", "year"]) has been applied
SortedByCountryYear(rows) ==
  \A i \in 1..(Len(rows) - 1) :
    \/ CountryRank(rows[i].country) < CountryRank(rows[i + 1].country)
    \/ /\ rows[i].country = rows[i + 1].country
       /\ YearKey(rows[i].year) <= YearKey(rows[i + 1].year)

-----------------------------------------------------------------------------
(* Year and country filters *)

\* (df["year"] >= y0) & (df["year"] <= y1) on one row; a null year compares
\* as NA / False and the row is masked out
InRangeExclusive(r, a, b) == r.year # Null /\ Val(r.year) >= Val(a) /\ Val(r.year) < Val(b)

InRange(r, a, b) == r.year # Null /\ Val(r.year) >= Val(a) /\ Val(r.year) <= Val(b)

\* df["country"].isin(countries) on one row
IsIn(r, sel) == r.country \in sel

\* Comparing the year column with None: the nullable Int64 column raises
\* TypeError, a numpy-backed column compares False everywhere.
NullBound(d) == {Raise("TypeError"), Table(d.columns, <<>>)}

\* overview._filter_years: no test of the bounds
ov_filter_years(d, a, b) ==
  IF Empty(d) \/ "year" \notin d.columns THEN {d}
  ELSE IF a = Null \/ b = Null THEN NullBound(d)
  ELSE {Table(d.columns, SelectSeq(d.rows, LAMBDA r : InRange(r, a, b)))}

\* conclusion._filter_years
co_filter_years(d, a, b) ==
  IF Empty(d) \/ "year" \notin d.columns \/ a = Null \/ b = Null THEN {d}
  ELSE {Table(d.columns, SelectSeq(d.rows, LAMBDA r : InRange(r, a, b)))}

filter_countries_DropFirst(d, sel) ==
  IF Empty(d) \/ "country" \notin d.columns \/ sel = {} THEN d
  ELSE Table(d.columns, Tail(d.rows))

\* overview._filter_countries and conclusion._filter_countries (same text)
filter_countries(d, sel) ==
  IF Empty(d) \/ "country" \notin d.columns \/ sel = {} THEN d
  ELSE Table(d.columns, SelectSeq(d.rows, LAMBDA r : IsIn(r, sel)))

\* deep_dives.render_deep_dives._sub, year part
dd_sub_years(d, a, b) ==
  IF a = Null THEN {d}
  ELSE IF "year" \notin d.columns THEN {Raise("KeyError")}
  ELSE IF b = Null THEN NullBound(d)
  ELSE {Table(d.columns, SelectSeq(d.rows, LAMBDA r : InRange(r, a, b)))}

\* deep_dives.render_deep_dives._sub, country part
dd_sub_countries(d, sel) ==
  IF ~IsTable(d) THEN d
  ELSE IF sel = {} THEN d
  ELSE IF "country" \notin d.columns THEN Raise("KeyError")
  ELSE Table(d.columns, SelectSeq(d.rows, LAMBDA r : IsIn(r, sel)))

\* deep_dives.render_deep_dives._sub
dd_sub(d, a, b, sel) ==
  IF Empty(d) THEN {d}
  ELSE {dd_sub_countries(t, sel) : t \in dd_sub_years(d, a, b)}

-----------------------------------------------------------------------------
(* Strings: sequences of ASCII codes *)

S_nan == <<110, 97, 110>>  \* "nan"

S_TOTAL == <<84, 79, 84, 65, 76>>  \* "TOTAL"

S_LOWEST == <<76, 79, 87, 69, 83, 84>>  \* "LOWEST"

S_FIRST == <<70, 73, 82, 83, 84>>  \* "FIRST"

S_BOTTOM == <<66, 79, 84, 84, 79, 77>>  \* "BOTTOM"

S_SECOND == <<83, 69, 67, 79, 78, 68>>  \* "SECOND"

S_THIRD == <<84, 72, 73, 82, 68>>  \* "THIRD"

S_FOURTH == <<70, 79, 85, 82, 84, 72>>  \* "FOURTH"

S_HIGHEST == <<72, 73, 71, 72, 69, 83, 84>>  \* "HIGHEST"

S_FIFTH == <<70, 73, 70, 84, 72>>  \* "FIFTH"

S_TOP == <<84, 79, 80>>  \* "TOP"

S_LOW == <<76, 79, 87>>  \* "LOW"

S_HIGH == <<72, 73, 71, 72>>  \* "HIGH"

S_Q1 == <<81, 49>>  \* "Q1"

S_Q2 == <<81, 50>>  \* "Q2"

S_Q3 == <<81, 51>>  \* "Q3"

S_Q4 == <<81, 52>>  \* "Q4"

S_Q5 == <<81, 53>>  \* "Q5"

\* a cell of an object column: a Python str, int or float, or a missing value
StrCell(s) == [t |-> "str", s |-> s]

IntCell(n) == [t |-> "int", n |-> n]

FloatCell(n) == [t |-> "float", n |-> n]

NaCell == [t |-> "na"]

\* pd.isna(val)
IsNa(v) == v.t = "na"

RECURSIVE Digits(_)
\* decimal digits of a natural number
Digits(n) == IF n < 10 THEN <<48 + n>> ELSE Digits(n \div 10) \o <<48 + (n % 10)>>

\* str(val), and Series.astype(str) on one cell; a whole float k prints as "k.0"
PyStr(v) ==
  CASE v.t = "str" -> v.s
    [] v.t = "int" -> Digits(v.n)
    [] v.t = "float" -> Digits(v.n) \o <<46, 48>>
    [] v.t = "na" -> S_nan

\* str.isspace() on ASCII
IsSpace(c) == c \in {9, 10, 11, 12, 13, 28, 29, 30, 31, 32}

IsDigit19(c) == c >= 49 /\ c <= 57

\* the character class [1-5]
IsDigit15(c) == c >= 49 /\ c <= 53

\* \w of the regular expressions (ASCII letters, digits, underscore)
IsWordChar(c) == (c >= 48 /\ c <= 57) \/ (c >= 65 /\ c <= 90) \/ (c >= 97 /\ c <= 122) \/ c = 95

UpperChar(c) == IF c >= 97 /\ c <= 122 THEN c - 32 ELSE c

\* str.upper()
Upper(s) == [i \in 1..Len(s) |-> UpperChar(s[i])]

RECURSIVE LStrip(_)
LStrip(s) == IF s # <<>> /\ IsSpace(Head(s)) THEN LStrip(Tail(s)) ELSE s

RECURSIVE RStrip(_)
RStrip(s) == IF s # <<>> /\ IsSpace(s[Len(s)]) THEN RStrip(SubSeq(s, 1, Len(s) - 1)) ELSE s

\* str.strip()
Strip(s) == RStrip(LStrip(s))

\* the literal pat occurs in s at position i
MatchAt(s, pat, i) ==
  /\ i + Len(pat) - 1 <= Len(s)
  /\ \A k \in 1..Len(pat) : s[i + k - 1] = pat[k]

\* "pat in s", re.search of a literal
Contains(s, pat) == \E i \in 1..(Len(s) + 1) : MatchAt(s, pat, i)

\* Series.str.contains(pat, case=False) for a literal pat
ContainsNoCase(s, pat) == Contains(Upper(s), Upper(pat))

\* \b between positions i-1 and i of s
WordBoundary(s, i) ==
  (i > 1 /\ i - 1 <= Len(s) /\ IsWordChar(s[i - 1])) # (i <= Len(s) /\ IsWordChar(s[i]))

\* re.search(r"pat\b", s)
SearchWordEnd(s, pat) ==
  \E i \in 1..(Len(s) + 1) : MatchAt(s, pat, i) /\ WordBoundary(s, i + Len(pat))

\* re.search(r"\bpat\b", s)
SearchWord(s, pat) ==
  \E i \in 1..(Len(s) + 1) :
    MatchAt(s, pat, i) /\ WordBoundary(s, i) /\ WordBoundary(s, i + Len(pat))

-----------------------------------------------------------------------------
(* Quintile canonicalization *)

\* re.match(r"^Q(U)?([1-5])$", s): the digit matched, 0 if no match
MatchQ(s) ==
  IF Len(s) = 2 /\ s[1] = 81 /\ IsDigit15(s[2]) THEN s[2]
  ELSE IF Len(s) = 3 /\ s[1] = 81 /\ s[2] = 85 /\ IsDigit15(s[3]) THEN s[3]
  ELSE IF Len(s) = 3 /\ s[1] = 81 /\ IsDigit15(s[2]) /\ s[3] = 10 THEN s[2]
  ELSE IF Len(s) = 4 /\ s[1] = 81 /\ s[2] = 85 /\ IsDigit15(s[3]) /\ s[4] = 10 THEN s[3]
  ELSE 0

\* f"Q{digit}"
QLabel(c) == StrCell(<<81, c>>)

\* the shared head of both _canon_quintile: Q#, QU#, then a single digit
CanonHead(s) ==
  IF MatchQ(s) # 0 THEN QLabel(MatchQ(s))
  ELSE IF Len(s) = 1 /\ IsDigit15(s[1]) THEN QLabel(s[1])
  ELSE NaCell

\* overview._canon_quintile
ov_canon_quintile(v) ==
  IF IsNa(v) THEN NaCell
  ELSE LET s == Upper(Strip(PyStr(v))) IN
       IF CanonHead(s) # NaCell THEN CanonHead(s)
       ELSE IF SearchWordEnd(s, S_LOWEST) \/ SearchWordEnd(s, S_FIRST) \/ SearchWordEnd(s, S_BOTTOM)
              THEN StrCell(S_Q1)
       ELSE IF SearchWord(s, S_SECOND) THEN StrCell(S_Q2)
       ELSE IF SearchWord(s, S_THIRD) THEN StrCell(S_Q3)
       ELSE IF SearchWord(s, S_FOURTH) THEN StrCell(S_Q4)
       ELSE IF SearchWordEnd(s, S_HIGHEST) \/ SearchWordEnd(s, S_FIFTH) \/ SearchWordEnd(s, S_TOP)
              THEN StrCell(S_Q5)
       ELSE NaCell

\* deep_dives._normalize_income._canon_quintile
dd_canon_quintile(v) ==
  IF IsNa(v) THEN NaCell
  ELSE LET s == Upper(Strip(PyStr(v))) IN
       IF CanonHead(s) # NaCell THEN CanonHead(s)
       ELSE IF Contains(s, S_LOW) \/ Contains(s, S_FIRST) \/ Contains(s, S_BOTTOM) THEN StrCell(S_Q1)
       ELSE IF Contains(s, S_SECOND) THEN StrCell(S_Q2)
       ELSE IF Contains(s, S_THIRD) THEN StrCell(S_Q3)
       ELSE IF Contains(s, S_FOURTH) THEN StrCell(S_Q4)
       ELSE IF Contains(s, S_HIGH) \/ Contains(s, S_FIFTH) \/ Contains(s, S_TOP) THEN StrCell(S_Q5)
       ELSE NaCell

-----------------------------------------------------------------------------
(* Under-50 restriction of the mortality table *)

S_Y_LT == <<89, 95, 76, 84>>  \* "Y_LT"

\* the alternatives of r"Y0-4|Y5-14|Y15-24|Y25-34|Y35-44|Y45-49"
Under50Bands == {<<89, 48, 45, 52>>,
                 <<89, 53, 45, 49, 52>>,
                 <<89, 49, 53, 45, 50, 52>>,
                 <<89, 50, 53, 45, 51, 52>>,
                 <<89, 51, 53, 45, 52, 52>>,
                 <<89, 52, 53, 45, 52, 57>>}

Under50MaskNoTotal(r) ==
  LET age == PyStr(r.age) IN
    \/ ContainsNoCase(age, S_Y_LT)
    \/ \E b \in Under50Bands : ContainsNoCase(age, b)

\* the mask of _mortality_under50 on one row
Under50Mask(r) ==
  LET age == PyStr(r.age) IN
    \/ ContainsNoCase(age, S_Y_LT)
    \/ \E b \in Under50Bands : ContainsNoCase(age, b)
    \/ age = S_TOTAL

\* overview._mortality_under50 and conclusion._mortality_under50 (same text)
mortality_under50(d) ==
  IF Empty(d) \/ "age" \notin d.columns THEN d
  ELSE Table(d.columns, SelectSeq(d.rows, LAMBDA r : Under50Mask(r)))

-----------------------------------------------------------------------------
(* Inputs of the filter specification *)

Countries == {"FR", "DE"}

Years == {2010, 2015, 2020}

YearCells == {Null} \cup {Some(y) : y \in Years}

FilterRows == [country : Countries, year : YearCells, screening_rate : {Some(120)}]

FilterColumns == {{"country", "year", "screening_rate"},
                  {"country", "screening_rate"},
                  {"year", "screening_rate"}}

FilterTables ==
  {Table(cols, ProjectRows(rows, cols)) :
     cols \in FilterColumns,
     rows \in {w \in SeqsUpTo(FilterRows, MaxRows) : SortedByCountryYear(w)}}

YearRanges ==
  {<<a, b>> \in YearCells \X YearCells : a = Null \/ b = Null \/ Val(a) <= Val(b)}

InitFilter ==
  /\ df \in FilterTables
  /\ countries \in SUBSET Countries
  /\ \E yr \in YearRanges : y0 = yr[1] /\ y1 = yr[2]
  /\ src = "load"
  /\ val = Null
  /\ op = "load"
  /\ out = Null

OvFilterYears ==
  /\ op \in {"load", "feed"}
  /\ \E r \in ov_filter_years(df, y0, y1) : out' = r
  /\ op' = "ov_filter_years"
  /\ UNCHANGED <<df, countries, y0, y1, src, val>>

CoFilterYears ==
  /\ op \in {"load", "feed"}
  /\ \E r \in co_filter_years(df, y0, y1) : out' = r
  /\ op' = "co_filter_years"
  /\ UNCHANGED <<df, countries, y0, y1, src, val>>

FilterCountries ==
  /\ op \in {"load", "feed"}
  /\ out' = filter_countries(df, countries)
  /\ op' = "filter_countries"
  /\ UNCHANGED <<df, countries, y0, y1, src, val>>

DdSub ==
  /\ op \in {"load", "feed"}
  /\ \E r \in dd_sub(df, y0, y1, countries) : out' = r
  /\ op' = "dd_sub"
  /\ UNCHANGED <<df, countries, y0, y1, src, val>>

\* the result of one filter is the input of the next (pipeline of pure steps)
Feed ==
  /\ op \in {"ov_filter_years", "co_filter_years", "filter_countries", "dd_sub"}
  /\ IsTable(out)
  /\ df' = out
  /\ src' = op
  /\ out' = Null
  /\ op' = "feed"
  /\ UNCHANGED <<countries, y0, y1, val>>

NextFilter == OvFilterYears \/ CoFilterYears \/ FilterCountries \/ DdSub \/ Feed

SpecFilter == InitFilter /\ [][NextFilter]_vars

-----------------------------------------------------------------------------
(* Claims about the filters *)

HasBounds == y0 # Null /\ y1 # Null

\* rows of df whose year is non-null and inside [y0, y1], in df's order
RowsInYears == SelectSeq(df.rows, LAMBDA r : r.year # Null /\ y0[1] <= r.year[1] /\ r.year[1] <= y1[1])

\* C1: with both bounds given, the year filter of the overview, of the
\* conclusion and of the deep dives returns exactly the rows of the table whose
\* year is non-null and lies in [y0, y1] (bounds inclusive), in the table's
\* order, and nothing else; for the deep-dive _sub, which also filters by
\* country, among the rows of the selected countries.
C1_YearFilterExact ==
  /\ (op \in {"ov_filter_years", "co_filter_years"} /\ "year" \in df.columns /\ HasBounds)
       => (IsTable(out) /\ out.columns = df.columns /\ out.rows = RowsInYears)
  /\ (op = "dd_sub" /\ {"year", "country"} \subseteq df.columns /\ HasBounds)
       => (/\ IsTable(out)
           /\ out.columns = df.columns
           /\ out.rows = SelectSeq(RowsInYears, LAMBDA r : countries = {} \/ r.country \in countries))

C1_Witness ==
  /\ op = "ov_filter_years"
  /\ "year" \in df.columns
  /\ HasBounds
  /\ Len(df.rows) = 2
  /\ df.rows[1].year = Null
  /\ df.rows[2].year = y1
  /\ y0 # y1
  /\ IsTable(out)
  /\ Len(out.rows) = 1

\* C2: every implementation of the year filter (overview, conclusion,
\* deep-dive _sub with no country selected) returns its input table unchanged
\* when y0 is null, or y1 is null, or the table has no year column.
C2_YearFilterNoOp ==
  (/\ \/ op \in {"ov_filter_years", "co_filter_years"}
      \/ op = "dd_sub" /\ countries = {}
   /\ y0 = Null \/ y1 = Null \/ "year" \notin df.columns)
    => out = df

\* C3: filtering twice by the same country set gives the rows of filtering
\* once, in the same order.
C3_CountryFilterIdempotent ==
  (op = "filter_countries" /\ src = "filter_countries") => out = df

C3_Witness ==
  /\ op = "filter_countries"
  /\ src = "filter_countries"
  /\ countries = {"FR"}
  /\ "country" \in df.columns
  /\ Len(df.rows) = 1
  /\ out = df

\* C4: the country filter (overview / conclusion _filter_countries and the
\* country part of the deep-dive _sub) keeps exactly the rows whose country is
\* in the set, and returns every row when the set is empty or the table has no
\* country column.
C4_CountryFilterExact ==
  (\/ op = "filter_countries"
   \/ op = "dd_sub" /\ (y0 = Null \/ (HasBounds /\ "year" \in df.columns /\ RowsInYears = df.rows)))
    => (/\ IsTable(out)
        /\ out.columns = df.columns
        /\ out.rows = IF countries = {} \/ "country" \notin df.columns THEN df.rows
                      ELSE SelectSeq(df.rows, LAMBDA r : r.country \in countries))

-----------------------------------------------------------------------------
(* Specification of the quintile canonicalization: one raw cell, canonicalized
   by the overview's or by the deep dives' function *)

MaxLabelLen == 3

QuintileAlphabet == {81, 85, 113, 49, 53, 54, 32}  \* Q U q 1 5 6 space

VerboseLabels == {<<76, 111, 119, 101, 115, 116, 32, 105, 110, 99, 111, 109, 101>>,
                  <<102, 105, 114, 115, 116, 32, 113, 117, 105, 110, 116, 105, 108, 101>>,
                  <<66, 79, 84, 84, 79, 77>>,
                  <<115, 101, 99, 111, 110, 100>>,
                  <<84, 104, 105, 114, 100, 32, 113, 117, 105, 110, 116, 105, 108, 101>>,
                  <<70, 79, 85, 82, 84, 72>>,
                  <<72, 105, 103, 104, 101, 115, 116, 32, 105, 110, 99, 111, 109, 101>>,
                  <<102, 105, 102, 116, 104>>,
                  <<116, 111, 112, 32, 50, 48, 37>>,
                  <<84, 79, 84, 65, 76>>,
                  <<117, 110, 107, 110, 111, 119, 110>>,
                  <<108, 111, 119, 101, 114>>,
                  <<104, 105, 103, 104, 101, 114>>,
                  <<116, 111, 112, 109, 111, 115, 116>>,
                  <<81, 85, 49, 48>>,
                  <<81, 49, 32, 108, 111, 119, 101, 115, 116>>,
                  <<49, 46, 53>>,
                  <<85, 78, 75>>,
                  <<49, 115, 116>>,
                  <<98, 111, 116, 116, 111, 109, 115>>}

QuintileInputs ==
  {NaCell}
    \cup {IntCell(n) : n \in 0..6}
    \cup {FloatCell(n) : n \in 1..5}
    \cup {StrCell(s) : s \in SeqsUpTo(QuintileAlphabet, MaxLabelLen) \cup VerboseLabels}

InitQuintile ==
  /\ df = Table({}, <<>>)
  /\ countries = {}
  /\ y0 = Null
  /\ y1 = Null
  /\ src = "load"
  /\ val \in QuintileInputs
  /\ op = "load"
  /\ out = NaCell

OvCanonQuintile ==
  /\ op = "load"
  /\ out' = ov_canon_quintile(val)
  /\ op' = "ov_canon_quintile"
  /\ UNCHANGED <<df, countries, y0, y1, src, val>>

DdCanonQuintile ==
  /\ op = "load"
  /\ out' = dd_canon_quintile(val)
  /\ op' = "dd_canon_quintile"
  /\ UNCHANGED <<df, countries, y0, y1, src, val>>

NextQuintile == OvCanonQuintile \/ DdCanonQuintile

SpecQuintile == InitQuintile /\ [][NextQuintile]_vars

QuintileLabels == {StrCell(<<81, d>>) : d \in 49..53}

\* raw strings that match no rule of either function
Unrecognized == {<<84, 79, 84, 65, 76>>,
                 <<117, 110, 107, 110, 111, 119, 110>>,
                 <<81, 85, 49, 48>>,
                 <<49, 46, 53>>,
                 <<85, 78, 75>>,
                 <<49, 115, 116>>,
                 <<81, 54>>,
                 <<81, 85, 54>>,
                 <<54>>,
                 <<81, 81, 49>>,
                 <<81, 32, 49>>,
                 <<>>}

\* C5: canonicalize_quintile (overview and deep dives) returns, for every
\* input (null, numbers, arbitrary strings), one of Q1..Q5 or null; null gives
\* null; "Q1", "1", "QU1" and "Lowest income" give "Q1"; Q# / QU# / a digit
\* 1..5, in any case and with surrounding blanks, give that quintile; an
\* integer 1..5 gives that quintile; a string that matches no rule gives null.
C5_CanonQuintile ==
  op \in {"ov_canon_quintile", "dd_canon_quintile"} =>
    /\ out \in QuintileLabels \cup {NaCell}
    /\ val = NaCell => out = NaCell
    /\ val \in {StrCell(<<81, 49>>), StrCell(<<49>>), StrCell(<<81, 85, 49>>),
                StrCell(<<76, 111, 119, 101, 115, 116, 32, 105, 110, 99, 111, 109, 101>>)} => out = StrCell(<<81, 49>>)
    /\ \A d \in 49..53 :
         val \in {StrCell(<<81, d>>), StrCell(<<113, d>>), StrCell(<<81, 85, d>>), StrCell(<<113, 85, d>>),
                  StrCell(<<32, 81, d>>), StrCell(<<81, d, 32>>), StrCell(<<d>>), StrCell(<<32, d, 32>>),
                  IntCell(d - 48)}
           => out = StrCell(<<81, d>>)
    /\ (val.t = "str" /\ val.s \in Unrecognized) => out = NaCell
    /\ val.t = "float" => out = NaCell

C5_Witness ==
  /\ op = "ov_canon_quintile"
  /\ val = StrCell(<<76, 111, 119, 101, 115, 116, 32, 105, 110, 99, 111, 109, 101>>)
  /\ out = StrCell(<<81, 49>>)

-----------------------------------------------------------------------------
(* Specification of the under-50 restriction: a mortality table, restricted
   by _mortality_under50 *)

\* age labels that carry one of the sub-50 patterns of the code
AgeSub50 == {StrCell(<<89, 95, 76, 84, 54, 53>>), StrCell(<<89, 52, 53, 45, 52, 57>>), StrCell(<<121, 49, 53, 45, 50, 52>>)}  \* Y_LT65 Y45-49 y15-24

\* age labels that are neither TOTAL nor a sub-50 pattern; a missing age
AgeOther == {StrCell(<<89, 95, 71, 69, 54, 53>>), StrCell(<<89, 53, 48, 45, 53, 52>>), StrCell(<<116, 111, 116, 97, 108>>), NaCell}  \* Y_GE65 Y50-54 total

AgeTotal == StrCell(S_TOTAL)

AgeCells == {AgeTotal} \cup AgeSub50 \cup AgeOther

MortalityRows ==
  [country : {"FR"}, year : {Some(2010), Some(2020)}, age : AgeCells,
   mortality_rate : {Null, Some(40), Some(80)}]

MortalityColumns == {{"country", "year", "age", "mortality_rate"},
                     {"country", "year", "mortality_rate"}}

MortalityTables ==
  {Table(cols, ProjectRows(rows, cols)) :
     cols \in MortalityColumns,
     rows \in {w \in SeqsUpTo(MortalityRows, MaxRows) : SortedByCountryYear(w)}}

InitMortality ==
  /\ df \in MortalityTables
  /\ countries = {}
  /\ y0 = Some(2010)
  /\ y1 = Some(2020)
  /\ src = "load"
  /\ val = NaCell
  /\ op = "load"
  /\ out = Null

MortalityUnder50 ==
  /\ op = "load"
  /\ out' = mortality_under50(df)
  /\ op' = "mortality_under50"
  /\ UNCHANGED <<df, countries, y0, y1, src, val>>

NextMortality == MortalityUnder50

SpecMortality == InitMortality /\ [][NextMortality]_vars

\* C6: restrict_under_50 keeps every row whose age label is exactly TOTAL (a
\* table with only a TOTAL row keeps it, a table with an under-50 band row and
\* a TOTAL row keeps both) and every row whose label carries a sub-50 pattern,
\* in the table's order; every other row is removed.
C6_Under50KeepsTotal ==
  (op = "mortality_under50" /\ "age" \in df.columns) =>
    /\ IsTable(out)
    /\ out.columns = df.columns
    /\ out.rows = SelectSeq(df.rows, LAMBDA r : r.age = AgeTotal \/ r.age \in AgeSub50)

C6_Witness ==
  /\ op = "mortality_under50"
  /\ "age" \in df.columns
  /\ Len(df.rows) = 2
  /\ df.rows[1].age = StrCell(<<89, 52, 53, 45, 52, 57>>)
  /\ df.rows[2].age = AgeTotal
  /\ df.rows[1].year = df.rows[2].year
  /\ out = df

-----------------------------------------------------------------------------
(* Aggregates and number formatting *)

RECURSIVE Insert(_, _)
Insert(x, s) ==
  IF s = <<>> THEN <<x>>
  ELSE IF x <= Head(s) THEN <<x>> \o s
  ELSE <<Head(s)>> \o Insert(x, Tail(s))

RECURSIVE SortNums(_)
\* the values in ascending order
SortNums(s) == IF s = <<>> THEN <<>> ELSE Insert(Head(s), SortNums(Tail(s)))

\* df[col] as a sequence of cells
Column(rows, col) == [i \in 1..Len(rows) |-> rows[i][col]]

\* Series.dropna(), as plain values
DropNa(cells) ==
  LET kept == SelectSeq(cells, LAMBDA c : c # Null)
  IN [i \in 1..Len(kept) |-> Val(kept[i])]

MedianLowerMiddle(cells) ==
  LET v == SortNums(DropNa(cells))
      n == Len(v)
  IN IF n = 0 THEN Null ELSE Some(v[(n + 1) \div 2])

\* Series.median(): missing values are skipped; NaN when nothing is left
Median(cells) ==
  LET v == SortNums(DropNa(cells))
      n == Len(v)
  IN IF n = 0 THEN Null
     ELSE IF n % 2 = 1 THEN Some(v[(n + 1) \div 2])
     ELSE Some((v[n \div 2] + v[n \div 2 + 1]) \div 2)

\* a - b on floats: NaN if either is NaN
Minus(a, b) == IF a = Null \/ b = Null THEN Null ELSE Some(Val(a) - Val(b))

YearsOf(rows) == {Val(rows[i].year) : i \in {j \in 1..Len(rows) : rows[j].year # Null}}

\* df["year"].dropna().max(); NA when there is no year
MaxYear(rows) ==
  IF YearsOf(rows) = {} THEN Null
  ELSE Some(CHOOSE y \in YearsOf(rows) : \A z \in YearsOf(rows) : z <= y)

MinYearIsSliderStart(rows) == y0

\* df["year"].dropna().min(); NA when there is no year
MinYear(rows) ==
  IF YearsOf(rows) = {} THEN Null
  ELSE Some(CHOOSE y \in YearsOf(rows) : \A z \in YearsOf(rows) : z >= y)

\* df[df["year"].eq(y)]: no row when y is NA
RowsAtYear(rows, y) == SelectSeq(rows, LAMBDA r : y # Null /\ r.year = y)

\* a value in units of 0.25 rounded to tenths, ties to even (format ".1f" of
\* a float that is exact in binary)
Tenths(q) ==
  LET n == q * 5
      f == (n - 1) \div 2
  IN IF n % 2 = 0 THEN n \div 2
     ELSE IF f % 2 = 0 THEN f ELSE f + 1

\* the empty string
Blank == [txt |-> "blank"]

\* the placeholder of the conclusion
Dash == [txt |-> "dash"]

\* f"{x:.1f}" and f"{x:+.1f}": "nan" for NaN
FmtNum(c) == IF c = Null THEN [txt |-> "nan"] ELSE [txt |-> "num", tenths |-> Tenths(Val(c))]

\* f"{d:+.1f} vs {year}"
FmtDelta(c, year) == [txt |-> "delta", change |-> FmtNum(c), vs |-> year]

-----------------------------------------------------------------------------
(* Screening KPI of the overview and of the conclusion *)

\* _coerce_year: an empty table becomes pd.DataFrame()
coerce_year(d) == IF Empty(d) THEN Table({}, <<>>) ELSE d

\* overview.render_overview, KPI 1, on the filtered table
ov_kpi(f, col) ==
  IF ~Empty(f) /\ {col, "year"} \subseteq f.columns THEN
    LET last_year == MaxYear(f.rows)
        first_year == MinYear(f.rows)
        latest == RowsAtYear(f.rows, last_year)
        base == RowsAtYear(f.rows, first_year)
    IN [value |-> IF latest # <<>> THEN FmtNum(Median(Column(latest, col))) ELSE Blank,
        delta |-> IF latest # <<>> /\ base # <<>>
                    THEN FmtDelta(Minus(Median(Column(latest, col)), Median(Column(base, col))),
                                  Val(first_year))
                    ELSE Blank]
  ELSE [value |-> Blank, delta |-> Blank]

\* conclusion.render_conclusion, KPI 1, on the filtered table
co_kpi(f, col) ==
  IF ~Empty(f) /\ {col, "year"} \subseteq f.columns /\ YearsOf(f.rows) # {} THEN
    LET y_last == MaxYear(f.rows)
        y_first == MinYear(f.rows)
        latest == Median(Column(RowsAtYear(f.rows, y_last), col))
        base == Median(Column(RowsAtYear(f.rows, y_first), col))
    IN [value |-> IF latest # Null THEN FmtNum(latest) ELSE Dash,
        delta |-> IF latest # Null /\ base # Null
                    THEN FmtDelta(Minus(latest, base), Val(y_first))
                    ELSE Blank]
  ELSE [value |-> Dash, delta |-> Blank]

\* overview.render_overview: "Apply filters" for one table
ov_apply_filters(d, sel, a, b) ==
  IF a # Null THEN ov_filter_years(filter_countries(coerce_year(d), sel), a, b)
  ELSE {coerce_year(d)}

\* conclusion.render_conclusion: "Apply filters" for one table
co_apply_filters(d, sel, a, b) == co_filter_years(filter_countries(coerce_year(d), sel), a, b)

ScreeningRows ==
  [country : Countries, year : {Some(y) : y \in Years},
   screening_rate : {Null, Some(120), Some(220)}]

ScreeningColumns == {"country", "year", "screening_rate"}

ScreeningTables ==
  {Table(ScreeningColumns, rows) :
     rows \in {w \in SeqsUpTo(ScreeningRows, MaxRows) : SortedByCountryYear(w)}}

\* the slider runs over the years of all tables and returns a <= b; without
\* any year there is no slider
SliderRanges(d) ==
  {<<Some(yr[1]), Some(yr[2])>> : yr \in {w \in Years \X Years : w[1] <= w[2]}}
    \cup (IF YearsOf(d.rows) = {} THEN {<<Null, Null>>} ELSE {})

InitScreening ==
  /\ df \in ScreeningTables
  /\ countries \in {{}, {"FR"}, {"FR", "DE"}}
  /\ \E yr \in SliderRanges(df) : y0 = yr[1] /\ y1 = yr[2]
  /\ src = "load"
  /\ val = NaCell
  /\ op = "load"
  /\ out = Null

RenderOverviewScreening ==
  /\ op = "load"
  /\ \E f \in ov_apply_filters(df, countries, y0, y1) :
       out' = IF IsTable(f) THEN ov_kpi(f, "screening_rate") ELSE f
  /\ op' = "render_overview"
  /\ UNCHANGED <<df, countries, y0, y1, src, val>>

RenderConclusionScreening ==
  /\ op = "load"
  /\ \E f \in co_apply_filters(df, countries, y0, y1) :
       out' = IF IsTable(f) THEN co_kpi(f, "screening_rate") ELSE f
  /\ op' = "render_conclusion"
  /\ UNCHANGED <<df, countries, y0, y1, src, val>>

NextScreening == RenderOverviewScreening \/ RenderConclusionScreening

SpecScreening == InitScreening /\ [][NextScreening]_vars

\* the rows the sections aggregate: those of the selected countries (all when
\* nothing is selected) whose year lies in the slider's range
SelectedRows ==
  SelectSeq(df.rows, LAMBDA r :
    /\ countries = {} \/ r.country \in countries
    /\ y0 = Null \/ (Val(y0) <= Val(r.year) /\ Val(r.year) <= Val(y1)))

SelectedYears == {Val(SelectedRows[i].year) : i \in 1..Len(SelectedRows)}

EarliestYear == CHOOSE y \in SelectedYears : \A z \in SelectedYears : y <= z

LatestYear == CHOOSE y \in SelectedYears : \A z \in SelectedYears : y >= z

\* median screening rate of the selected rows of year y
MedianAt(y) ==
  Median(Column(SelectSeq(SelectedRows, LAMBDA r : r.year = Some(y)), "screening_rate"))

Rendered == op \in {"render_overview", "render_conclusion"}

\* C7: the screening KPI shows the median rate at the latest year present
\* after filtering, and its delta is that median minus the median at the
\* earliest year present after filtering, labelled with that earliest year (not
\* with the slider's start); for rows (FR,2010,30.0), (FR,2020,55.0), countries
\* {FR} and years (2010,2020) it shows 55.0 and "+25.0 vs 2010".
C7_ScreeningKpi ==
  /\ (/\ Rendered
      /\ SelectedRows # <<>>
      /\ MedianAt(LatestYear) # Null
      /\ MedianAt(EarliestYear) # Null)
       => /\ out.value = [txt |-> "num", tenths |-> Tenths(Val(MedianAt(LatestYear)))]
          /\ out.delta = [txt |-> "delta",
                          change |-> [txt |-> "num",
                                      tenths |-> Tenths(Val(MedianAt(LatestYear)) - Val(MedianAt(EarliestYear)))],
                          vs |-> EarliestYear]
  /\ (/\ Rendered
      /\ df.rows = <<[country |-> "FR", year |-> Some(2010), screening_rate |-> Some(120)],
                     [country |-> "FR", year |-> Some(2020), screening_rate |-> Some(220)]>>
      /\ countries = {"FR"}
      /\ y0 = Some(2010)
      /\ y1 = Some(2020))
       => /\ out.value = [txt |-> "num", tenths |-> 550]
          /\ out.delta = [txt |-> "delta", change |-> [txt |-> "num", tenths |-> 250], vs |-> 2010]

\* the slider starts before the first year of the selection, and the delta is
\* still taken against that first year
C7_Witness ==
  /\ op = "render_overview"
  /\ countries = {"FR"}
  /\ y0 = Some(2010)
  /\ y1 = Some(2020)
  /\ Len(df.rows) = 2
  /\ df.rows[1] = [country |-> "FR", year |-> Some(2015), screening_rate |-> Some(120)]
  /\ df.rows[2] = [country |-> "FR", year |-> Some(2020), screening_rate |-> Some(220)]
  /\ out.value = [txt |-> "num", tenths |-> 550]
  /\ out.delta = [txt |-> "delta", change |-> [txt |-> "num", tenths |-> 250], vs |-> 2015]

\* C8: when the rows at the earliest year or the rows at the latest year of
\* the filtered table hold no non-null rate, the KPI shows no value and no
\* delta (overview and conclusion).
C8_UnavailableOnNullEndpoint ==
  (/\ Rendered
   /\ SelectedRows # <<>>
   /\ MedianAt(LatestYear) = Null \/ MedianAt(EarliestYear) = Null)
    => /\ out.value \in {Blank, Dash}
       /\ out.delta = Blank

-----------------------------------------------------------------------------
(* Income gap KPI (Q5 minus Q1) of the overview and of the conclusion *)

\* the alternatives of r"Y1?5-24|Y25-34|...|Y_GE16_LT50|Y_LT50"
ExamSub50Codes == {<<89, 49, 53, 45, 50, 52>>,
                   <<89, 53, 45, 50, 52>>,
                   <<89, 50, 53, 45, 51, 52>>,
                   <<89, 51, 48, 45, 51, 57>>,
                   <<89, 51, 53, 45, 52, 52>>,
                   <<89, 52, 48, 45, 52, 52>>,
                   <<89, 52, 48, 45, 52, 57>>,
                   <<89, 52, 53, 45, 52, 57>>,
                   <<89, 95, 71, 69, 49, 54, 95, 76, 84, 53, 48>>,
                   <<89, 95, 76, 84, 53, 48>>}

\* the alternatives of r"\b(15-24|25-34|30-39|35-44|40-44|40-49|45-49)\b"
ExamSub50Ranges == {<<49, 53, 45, 50, 52>>,
                    <<50, 53, 45, 51, 52>>,
                    <<51, 48, 45, 51, 57>>,
                    <<51, 53, 45, 52, 52>>,
                    <<52, 48, 45, 52, 52>>,
                    <<52, 48, 45, 52, 57>>,
                    <<52, 53, 45, 52, 57>>}

\* the sub50 mask of _income_q1_q5_sub50 on one row
ExamSub50Mask(r) ==
  LET ag == Upper(PyStr(r.age_group)) IN
    \/ \E p \in ExamSub50Codes : Contains(ag, p)
    \/ \E p \in ExamSub50Ranges : SearchWord(ag, p)

\* overview._income_q1_q5_sub50
income_q1_q5_sub50(d) ==
  IF Empty(d) THEN d
  ELSE LET canon == IF "income_quintile" \in d.columns
                      THEN [i \in 1..Len(d.rows) |->
                              [d.rows[i] EXCEPT !.income_quintile = ov_canon_quintile(d.rows[i].income_quintile)]]
                      ELSE d.rows
           young == IF "age_group" \in d.columns
                      THEN SelectSeq(canon, LAMBDA r : ExamSub50Mask(r))
                      ELSE canon
       IN Table(d.columns,
                IF "income_quintile" \in d.columns
                  THEN SelectSeq(young, LAMBDA r : r.income_quintile \in {StrCell(S_Q1), StrCell(S_Q5)})
                  ELSE young)

\* Series.str.match(r"^QU([1-5])$") on an upper-cased label: the digit, 0 if no match
MatchQU(s) ==
  IF Len(s) = 3 /\ s[1] = 81 /\ s[2] = 85 /\ IsDigit15(s[3]) THEN s[3]
  ELSE IF Len(s) = 4 /\ s[1] = 81 /\ s[2] = 85 /\ IsDigit15(s[3]) /\ s[4] = 10 THEN s[3]
  ELSE 0

\* conclusion.render_conclusion, KPI 3: QU# becomes Q#, anything else is kept
co_canon_quintile(v) ==
  IF MatchQU(Upper(PyStr(v))) # 0 THEN QLabel(MatchQU(Upper(PyStr(v)))) ELSE v

\* median exam_rate of the rows of one quintile
QuintileMedian(rows, q) ==
  Median(Column(SelectSeq(rows, LAMBDA r : r.income_quintile = StrCell(q)), "exam_rate"))

\* f"{gap:.1f} pp" with its note f"Year {year}"
FmtGap(gap, year) == [value |-> [txt |-> "pp", tenths |-> Tenths(Val(gap))],
                      note |-> [txt |-> "year", year |-> Val(year)]]

GapOfQ1MinusQ5(q5, q1) == Minus(q1, q5)

\* q5 - q1
Gap(q5, q1) == Minus(q5, q1)

\* overview.render_overview, KPI 3, on the filtered table
ov_kpi_gap(f) ==
  LET ei_sub == income_q1_q5_sub50(f) IN
    IF ~Empty(ei_sub) /\ {"income_quintile", "exam_rate", "year"} \subseteq ei_sub.columns THEN
      LET last_year_e == MaxYear(ei_sub.rows)
          ei_last == RowsAtYear(ei_sub.rows, last_year_e)
          q5 == QuintileMedian(ei_last, S_Q5)
          q1 == QuintileMedian(ei_last, S_Q1)
      IN IF ei_last # <<>> /\ q5 # Null /\ q1 # Null
           THEN FmtGap(Gap(q5, q1), last_year_e)
           ELSE [value |-> Blank, note |-> Blank]
    ELSE [value |-> Blank, note |-> Blank]

\* conclusion.render_conclusion, KPI 3, on the filtered table
co_kpi_gap(f) ==
  IF ~Empty(f) /\ {"income_quintile", "exam_rate", "year"} \subseteq f.columns THEN
    LET ei == [i \in 1..Len(f.rows) |->
                 [f.rows[i] EXCEPT !.income_quintile = co_canon_quintile(f.rows[i].income_quintile)]]
        y_last == MaxYear(ei)
        e_last == RowsAtYear(ei, y_last)
        q5 == QuintileMedian(e_last, S_Q5)
        q1 == QuintileMedian(e_last, S_Q1)
    IN IF y_last # Null /\ q5 # Null /\ q1 # Null
         THEN FmtGap(Gap(q5, q1), y_last)
         ELSE [value |-> Dash, note |-> Blank]
  ELSE [value |-> Dash, note |-> Blank]

RECURSIVE LexLeq(_, _)
\* s <= t in the order of Python strings
LexLeq(s, t) ==
  IF s = <<>> THEN TRUE
  ELSE IF t = <<>> THEN FALSE
  ELSE IF Head(s) < Head(t) THEN TRUE
  ELSE IF Head(s) > Head(t) THEN FALSE
  ELSE LexLeq(Tail(s), Tail(t))

\* df.sort_values(by=["country", "income_quintile"]) has been applied
SortedByCountryQuintile(rows) ==
  \A i \in 1..(Len(rows) - 1) :
    \/ CountryRank(rows[i].country) < CountryRank(rows[i + 1].country)
    \/ /\ rows[i].country = rows[i + 1].country
       /\ LexLeq(PyStr(rows[i].income_quintile), PyStr(rows[i + 1].income_quintile))

MaxExamRows == 2

ExamYoungAges == {StrCell(<<89, 50, 53, 45, 51, 52>>)}  \* Y25-34

ExamOldAges == {StrCell(<<89, 53, 48, 45, 54, 52>>)}  \* Y50-64

RawQ1 == {StrCell(<<81, 85, 49>>), StrCell(<<81, 49>>)}  \* QU1 Q1

RawQ5 == {StrCell(<<81, 85, 53>>), StrCell(<<81, 53>>)}  \* QU5 Q5

RawOther == {StrCell(S_TOTAL)}

ExamRows ==
  [country : {"FR"}, year : {Some(2015), Some(2020)},
   age_group : ExamYoungAges \cup ExamOldAges,
   income_quintile : RawQ1 \cup RawQ5 \cup RawOther,
   exam_rate : {Null, Some(74), Some(168)}]

ExamColumns == {"country", "year", "age_group", "income_quintile", "exam_rate"}

ExamTables ==
  {Table(ExamColumns, rows) :
     rows \in {w \in SeqsUpTo(ExamRows, MaxExamRows) : SortedByCountryQuintile(w)}}

InitExam ==
  /\ df \in ExamTables
  /\ countries \in {{}, {"FR"}}
  /\ \E yr \in {<<Some(2015), Some(2020)>>, <<Some(2015), Some(2015)>>} : y0 = yr[1] /\ y1 = yr[2]
  /\ src = "load"
  /\ val = NaCell
  /\ op = "load"
  /\ out = Null

RenderOverviewGap ==
  /\ op = "load"
  /\ \E f \in ov_apply_filters(df, countries, y0, y1) :
       out' = IF IsTable(f) THEN ov_kpi_gap(f) ELSE f
  /\ op' = "render_overview"
  /\ UNCHANGED <<df, countries, y0, y1, src, val>>

RenderConclusionGap ==
  /\ op = "load"
  /\ \E f \in co_apply_filters(df, countries, y0, y1) :
       out' = IF IsTable(f) THEN co_kpi_gap(f) ELSE f
  /\ op' = "render_conclusion"
  /\ UNCHANGED <<df, countries, y0, y1, src, val>>

NextExam == RenderOverviewGap \/ RenderConclusionGap

SpecExam == InitExam /\ [][NextExam]_vars

\* the rows the income-gap KPI of the rendered section draws on: the selected
\* rows, in the overview only those of an under-50 age group and of Q1 or Q5
GapRows ==
  SelectSeq(SelectedRows, LAMBDA r :
    op = "render_overview" => (r.age_group \in ExamYoungAges /\ r.income_quintile \in RawQ1 \cup RawQ5))

GapYears == {Val(GapRows[i].year) : i \in 1..Len(GapRows)}

GapYear == CHOOSE y \in GapYears : \A z \in GapYears : y >= z

\* the non-null exam rates of the rows of the gap year whose quintile is in qs
GapRates(qs) ==
  DropNa(Column(SelectSeq(GapRows, LAMBDA r : r.year = Some(GapYear) /\ r.income_quintile \in qs),
                "exam_rate"))

\* C9: the income gap of the latest year is the median exam_rate of its Q5
\* rows minus the median exam_rate of its Q1 rows (42.0 and 18.5 give 23.5),
\* and no value is shown when that year has no Q1 row or no Q5 row with a
\* non-null exam_rate.
C9_IncomeGap ==
  (Rendered /\ GapRows # <<>>) =>
    IF GapRates(RawQ1) # <<>> /\ GapRates(RawQ5) # <<>>
      THEN /\ out.value = [txt |-> "pp",
                           tenths |-> Tenths(Val(Median(Column(SelectSeq(GapRows, LAMBDA r :
                                                  r.year = Some(GapYear) /\ r.income_quintile \in RawQ5), "exam_rate")))
                                             - Val(Median(Column(SelectSeq(GapRows, LAMBDA r :
                                                  r.year = Some(GapYear) /\ r.income_quintile \in RawQ1), "exam_rate"))))]
           /\ out.note = [txt |-> "year", year |-> GapYear]
           /\ (GapRates(RawQ5) = <<168>> /\ GapRates(RawQ1) = <<74>>) => out.value.tenths = 235
      ELSE out.value \in {Blank, Dash} /\ out.note = Blank

C9_Witness ==
  /\ op = "render_conclusion"
  /\ Len(df.rows) = 2
  /\ df.rows[1].income_quintile \in RawQ1
  /\ df.rows[1].exam_rate = Some(74)
  /\ df.rows[2].income_quintile \in RawQ5
  /\ df.rows[2].exam_rate = Some(168)
  /\ out.value = [txt |-> "pp", tenths |-> 235]

-----------------------------------------------------------------------------
(* Group-wise medians *)

\* the key tuples of df.groupby(keys): rows with a missing key form no group
GroupKeys(rows, keys) ==
  {Project(rows[i], keys) :
     i \in {j \in 1..Len(rows) : \A c \in keys \ {"country"} : rows[j][c] # Null}}

\* position of a key tuple in the sorted result of groupby
KeyNum(k) ==
  (IF "country" \in DOMAIN k THEN CountryRank(k.country) * 10000 ELSE 0)
    + (IF "year" \in DOMAIN k THEN Val(k.year) ELSE 0)

RECURSIVE SortKeys(_)
\* the key tuples in ascending order
SortKeys(ks) ==
  IF ks = {} THEN <<>>
  ELSE LET k == CHOOSE x \in ks : \A z \in ks : KeyNum(x) <= KeyNum(z)
       IN <<k>> \o SortKeys(ks \ {k})

\* df.groupby(keys, as_index=False)[col].median(), sorted by the keys
median_by(rows, keys, col) ==
  LET ks == SortKeys(GroupKeys(rows, keys))
  IN [i \in 1..Len(ks) |->
        [c \in keys \cup {col} |->
           IF c = col
             THEN Median(Column(SelectSeq(rows, LAMBDA r : Project(r, keys) = ks[i]), col))
             ELSE ks[i][c]]]

\* deep_dives.render_deep_dives, tab 1 without an age column: ts
dd_screening_trend(f) == median_by(f.rows, {"country", "year"}, "screening_rate")

\* conclusion.render_conclusion: scr_med, with its dropna
co_screening_trend(f) ==
  SelectSeq(median_by(f.rows, {"year"}, "screening_rate"),
            LAMBDA r : r.year # Null /\ r.screening_rate # Null)

MaxGroup == 4

MedianRows ==
  [country : {"FR"}, year : {Some(2010), Some(2020)},
   screening_rate : {Null, Some(40), Some(80), Some(120), Some(160)}]

MedianTables ==
  {Table(ScreeningColumns, rows) :
     rows \in {w \in SeqsUpTo(MedianRows, MaxGroup) : SortedByCountryYear(w)}}

InitMedian ==
  /\ df \in MedianTables
  /\ countries = {}
  /\ y0 = Some(2010)
  /\ y1 = Some(2020)
  /\ src = "load"
  /\ val = NaCell
  /\ op = "load"
  /\ out = Null

DdScreeningTrend ==
  /\ op = "load"
  /\ ~Empty(df)
  /\ out' = dd_screening_trend(df)
  /\ op' = "dd_screening_trend"
  /\ UNCHANGED <<df, countries, y0, y1, src, val>>

CoScreeningTrend ==
  /\ op = "load"
  /\ ~Empty(df)
  /\ out' = co_screening_trend(df)
  /\ op' = "co_screening_trend"
  /\ UNCHANGED <<df, countries, y0, y1, src, val>>

NextMedian == DdScreeningTrend \/ CoScreeningTrend

SpecMedian == InitMedian /\ [][NextMedian]_vars

\* the non-null rates of the rows of df of year y
RatesOf(y) == DropNa(Column(SelectSeq(df.rows, LAMBDA r : r.year = Some(y)), "screening_rate"))

\* the k-th smallest of the values v: fewer than k values are below it and at
\* least k values are not above it
OrderStat(v, k) ==
  CHOOSE x \in {v[i] : i \in 1..Len(v)} :
    /\ Cardinality({i \in 1..Len(v) : v[i] < x}) < k
    /\ Cardinality({i \in 1..Len(v) : v[i] <= x}) >= k

\* the mathematical median: the middle value, or the average of the two
\* middle values; null when there is no value
MathMedian(v) ==
  IF v = <<>> THEN Null
  ELSE Some((OrderStat(v, (Len(v) + 1) \div 2) + OrderStat(v, (Len(v) + 2) \div 2)) \div 2)

DfYears == {Val(df.rows[i].year) : i \in 1..Len(df.rows)}

\* C10: median_by has one row per group, holding the mathematical median of
\* the group's non-null values (the average of the two middle values for an
\* even-sized group: 10, 20, 30, 40 give 25) and null, not zero, for a group
\* whose values are all null; the conclusion's trend then drops the null groups.
C10_MedianBy ==
  /\ op = "dd_screening_trend" =>
       /\ {out[i].year : i \in 1..Len(out)} = {Some(y) : y \in DfYears}
       /\ \A i \in 1..Len(out) :
            /\ out[i].country = "FR"
            /\ out[i].screening_rate = MathMedian(RatesOf(Val(out[i].year)))
            /\ \A j \in 1..Len(out) : i < j => Val(out[i].year) < Val(out[j].year)
  /\ op = "co_screening_trend" =>
       /\ {out[i].year : i \in 1..Len(out)} = {Some(y) : y \in {z \in DfYears : RatesOf(z) # <<>>}}
       /\ \A i \in 1..Len(out) :
            /\ out[i].screening_rate = MathMedian(RatesOf(Val(out[i].year)))
            /\ \A j \in 1..Len(out) : i < j => Val(out[i].year) < Val(out[j].year)

\* the even-sized group 10, 20, 30, 40 has median 25
C10_Witness ==
  /\ op = "dd_screening_trend"
  /\ RatesOf(2010) = <<40, 80, 120, 160>>
  /\ out = <<[country |-> "FR", year |-> Some(2010), screening_rate |-> Some(100)]>>

\* a group of two values next to a group whose values are all null
C10_WitnessAllNull ==
  /\ op = "dd_screening_trend"
  /\ Len(df.rows) = 4
  /\ RatesOf(2010) = <<40, 80>>
  /\ RatesOf(2020) = <<>>
  /\ out = <<[country |-> "FR", year |-> Some(2010), screening_rate |-> Some(60)],
             [country |-> "FR", year |-> Some(2020), screening_rate |-> Null]>>

-----------------------------------------------------------------------------
(* Share of mortality under 50 (deep dives, tab 2 and correlation panel) *)

RECURSIVE GCD(_, _)
GCD(a, b) == IF b = 0 THEN a ELSE GCD(b, a % b)

\* a finite non-negative float, kept as the reduced fraction n / d (d > 0)
Num(n, d) == [num |-> n \div GCD(n, d), den |-> d \div GCD(n, d)]

\* float("inf")
Inf == [txt |-> "inf"]

RECURSIVE SumNums(_)
SumNums(v) == IF v = <<>> THEN 0 ELSE Head(v) + SumNums(Tail(v))

\* Series.mean(): missing values are skipped; NaN when nothing is left
Mean(cells) ==
  IF DropNa(cells) = <<>> THEN Null
  ELSE Num(SumNums(DropNa(cells)), Len(DropNa(cells)))

\* (u / t) * 100 on floats: NaN if either is NaN or both are 0, inf for x / 0
SharePct(u, t) ==
  IF u = Null \/ t = Null THEN Null
  ELSE IF t.num = 0 THEN (IF u.num = 0 THEN Null ELSE Inf)
  ELSE Num(100 * u.num * t.den, u.den * t.num)

\* m["age"].str.contains(r"(Y_LT|Y0-4|Y5-14|Y15-24|Y25-34|Y35-44|Y45-49)", case=False)
dd_under_mask(r) ==
  \/ ContainsNoCase(PyStr(r.age), S_Y_LT)
  \/ \E b \in Under50Bands : ContainsNoCase(PyStr(r.age), b)

\* m["age"].eq("TOTAL")
dd_total_mask(r) == PyStr(r.age) = S_TOTAL

\* groupby(["country", "year"])["mortality_rate"].mean() of rows, read at key k
\* (null when the key has no group)
MeanAt(rows, k) ==
  IF k \in GroupKeys(rows, {"country", "year"})
    THEN Mean(Column(SelectSeq(rows, LAMBDA r : Project(r, {"country", "year"}) = k), "mortality_rate"))
    ELSE Null

\* the merged table of u and t on the sorted keys ks, with share_u50
MergedShare(under, total, ks) ==
  [i \in 1..Len(ks) |->
     [country |-> ks[i].country, year |-> ks[i].year,
      mort_u50 |-> MeanAt(under, ks[i]), mort_total |-> MeanAt(total, ks[i]),
      share_u50 |-> SharePct(MeanAt(under, ks[i]), MeanAt(total, ks[i]))]]

\* the message shown in place of a result
Info(s) == [info |-> s, rows |-> <<>>]

\* a computed table, shown
Shown(rows) == [info |-> "", rows |-> rows]

\* render_deep_dives, tab 2: merged (inner join)
dd_share_tab2(f) ==
  IF ~Empty(f) /\ {"mortality_rate", "age", "year", "country"} \subseteq f.columns THEN
    LET under == SelectSeq(f.rows, LAMBDA r : dd_under_mask(r))
        total == SelectSeq(f.rows, LAMBDA r : dd_total_mask(r))
    IN IF under # <<>> /\ total # <<>>
         THEN Shown(MergedShare(under, total,
                SortKeys(GroupKeys(under, {"country", "year"}) \cap GroupKeys(total, {"country", "year"}))))
         ELSE Info("need both")
  ELSE Info("incomplete")

\* render_deep_dives._panel_for_year: m_agg (outer join at year y)
dd_share_panel(m, y) ==
  IF Empty(m) THEN Shown(<<>>)
  ELSE LET under == SelectSeq(m.rows, LAMBDA r : dd_under_mask(r) /\ r.year = Some(y))
           total == SelectSeq(m.rows, LAMBDA r : dd_total_mask(r) /\ r.year = Some(y))
       IN Shown(MergedShare(under, total,
            SortKeys(GroupKeys(under, {"country", "year"}) \cup GroupKeys(total, {"country", "year"}))))

MaxShareRows == 3

ShareAges == {StrCell(<<89, 52, 53, 45, 52, 57>>), AgeTotal, StrCell(<<89, 53, 48, 45, 53, 52>>)}  \* Y45-49 TOTAL Y50-54

ShareRows ==
  [country : {"FR"}, year : {Some(2010), Some(2020)}, age : ShareAges,
   mortality_rate : {Null, Some(0), Some(40)}]

ShareColumns == {"country", "year", "age", "mortality_rate"}

ShareTables ==
  {Table(ShareColumns, rows) :
     rows \in {w \in SeqsUpTo(ShareRows, MaxShareRows) : SortedByCountryYear(w)}}

InitShare ==
  /\ df \in ShareTables
  /\ countries = {}
  /\ \E yr \in {<<Some(2010), Some(2020)>>, <<Some(2020), Some(2020)>>} : y0 = yr[1] /\ y1 = yr[2]
  /\ src = "load"
  /\ val = NaCell
  /\ op = "load"
  /\ out = Null

\* tab 2 on mort_f = _sub(mort)
DdShareTab2 ==
  /\ op = "load"
  /\ \E f \in dd_sub(df, y0, y1, countries) :
       out' = [year |-> Null, merged |-> dd_share_tab2(f)]
  /\ op' = "dd_share_tab2"
  /\ UNCHANGED <<df, countries, y0, y1, src, val>>

\* tab 4: _panel_for_year(corr_year) on mort
DdSharePanel ==
  /\ op = "load"
  /\ \E y \in {2010, 2020} :
       out' = [year |-> Some(y), merged |-> dd_share_panel(df, y)]
  /\ op' = "dd_share_panel"
  /\ UNCHANGED <<df, countries, y0, y1, src, val>>

NextShare == DdShareTab2 \/ DdSharePanel

SpecShare == InitShare /\ [][NextShare]_vars

\* the rows the share is computed on: those in the slider's range for tab 2,
\* those of the correlation year for the panel
ShareInput ==
  SelectSeq(df.rows, LAMBDA r :
    IF op = "dd_share_tab2" THEN Val(y0) <= Val(r.year) /\ Val(r.year) <= Val(y1)
    ELSE r.year = out.year)

\* rates of the sub-50 band rows and of the TOTAL rows of (FR, y), nulls included
SubRates(y) ==
  Column(SelectSeq(ShareInput, LAMBDA r : r.year = y /\ r.age = StrCell(<<89, 52, 53, 45, 52, 57>>)),
         "mortality_rate")

TotalRates(y) ==
  Column(SelectSeq(ShareInput, LAMBDA r : r.year = y /\ r.age = AgeTotal), "mortality_rate")

ShareComputed == op \in {"dd_share_tab2", "dd_share_panel"} /\ out.merged.info = ""

\* C11: per (country, year) the share is mean(sub-50 rates) / mean(TOTAL
\* rates) * 100; it is null where the sub-50 rows or the TOTAL rows are
\* absent, every pair present on both sides has its row, and a share that is
\* not null is a finite number.
C11_Under50Share ==
  ShareComputed =>
    /\ \A i \in 1..Len(out.merged.rows) :
         LET r == out.merged.rows[i]
             u == DropNa(SubRates(r.year))
             t == DropNa(TotalRates(r.year))
         IN /\ (SubRates(r.year) = <<>> \/ TotalRates(r.year) = <<>>) => r.share_u50 = Null
            /\ r.share_u50 # Null =>
                 /\ r.share_u50 # Inf
                 /\ r.share_u50.num * Len(u) * SumNums(t) = r.share_u50.den * 100 * SumNums(u) * Len(t)
    /\ \A y \in {Some(2010), Some(2020)} :
         (SubRates(y) # <<>> /\ TotalRates(y) # <<>>) =>
           \E i \in 1..Len(out.merged.rows) : out.merged.rows[i].year = y

-----------------------------------------------------------------------------
(* The cleaners of utils/prep.py *)

S_C50 == <<67, 53, 48>>  \* "C50"

S_PRG == <<80, 82, 71>>  \* "PRG"

S_F == <<70>>  \* "F"

IsDigit09(c) == c >= 48 /\ c <= 57

AllDigits(s) == s # <<>> /\ \A i \in 1..Len(s) : IsDigit09(s[i])

RECURSIVE ParseDigits(_)
\* the number written by a string of decimal digits
ParseDigits(s) ==
  IF s = <<>> THEN 0 ELSE 10 * ParseDigits(SubSeq(s, 1, Len(s) - 1)) + (s[Len(s)] - 48)

\* pd.to_numeric(errors="coerce") on one cell read from the file
to_numeric(c) ==
  CASE c.t = "int" -> Some(c.n)
    [] c.t = "str" -> IF AllDigits(c.s) THEN Some(ParseDigits(c.s)) ELSE Null
    [] OTHER -> Null

\* astype(int) succeeds on this cell: an integer or a string of digits; a
\* missing value or any other string raises ValueError
IntCastable(c) == c.t = "int" \/ (c.t = "str" /\ AllDigits(c.s))

\* the name of column c after df.rename(columns=ren)
NewName(c, ren) == IF c \in DOMAIN ren THEN ren[c] ELSE c

\* df.rename(columns=ren) on the set of columns and on one row
RenameColumns(cols, ren) == {NewName(c, ren) : c \in cols}

RenameRow(r, ren) ==
  [n \in RenameColumns(DOMAIN r, ren) |-> r[CHOOSE c \in DOMAIN r : NewName(c, ren) = n]]

\* sort key of sort_values(by=["country", "year"]); missing years last
CountryYearKey(r) == CountryRank(r.country) * 10000 + YearKey(r.year)

RECURSIVE InsertByCountryYear(_, _)
\* r placed after the rows of s whose key is not larger (a stable sort)
InsertByCountryYear(r, s) ==
  IF s = <<>> THEN <<r>>
  ELSE IF CountryYearKey(r) < CountryYearKey(Head(s)) THEN <<r>> \o s
  ELSE <<Head(s)>> \o InsertByCountryYear(r, Tail(s))

RECURSIVE SortByCountryYear(_)
\* df.sort_values(by=["country", "year"]).reset_index(drop=True)
SortByCountryYear(rows) ==
  IF rows = <<>> THEN <<>>
  ELSE InsertByCountryYear(rows[Len(rows)], SortByCountryYear(SubSeq(rows, 1, Len(rows) - 1)))

ScreeningRename == [geo |-> "country", TIME_PERIOD |-> "year", OBS_VALUE |-> "screening_rate"]

ScreeningKeep == {"country", "year", "unit", "source", "icd10", "screening_rate"}

\* prep.clean_screening on the table read from the file
clean_screening(raw) ==
  IF "icd10" \notin raw.columns THEN Raise("KeyError")
  ELSE IF "source" \notin raw.columns THEN Raise("KeyError")
  ELSE IF ~(ScreeningKeep \subseteq RenameColumns(raw.columns, ScreeningRename)) THEN Raise("KeyError")
  ELSE
    LET kept == SelectSeq(raw.rows, LAMBDA r : r.icd10 = StrCell(S_C50) /\ r.source = StrCell(S_PRG))
        sel == [i \in 1..Len(kept) |-> Project(RenameRow(kept[i], ScreeningRename), ScreeningKeep)]
    IN IF \E i \in 1..Len(sel) : ~IntCastable(sel[i].year) THEN Raise("ValueError")
       ELSE Table(ScreeningKeep,
              SortByCountryYear([i \in 1..Len(sel) |->
                [sel[i] EXCEPT !.year = to_numeric(sel[i].year),
                               !.screening_rate = to_numeric(sel[i].screening_rate)]]))

MortalityRename == [geo |-> "country", TIME_PERIOD |-> "year", OBS_VALUE |-> "mortality_rate"]

MortalityKeep == {"country", "year", "unit", "age", "sex", "icd10", "mortality_rate"}

\* prep.clean_mortality on the table read from the file
clean_mortality(raw) ==
  IF "sex" \notin raw.columns THEN Raise("KeyError")
  ELSE IF "icd10" \notin raw.columns THEN Raise("KeyError")
  ELSE IF ~(MortalityKeep \subseteq RenameColumns(raw.columns, MortalityRename)) THEN Raise("KeyError")
  ELSE
    LET kept == SelectSeq(raw.rows, LAMBDA r :
                  /\ Contains(Upper(PyStr(r.sex)), S_F)
                  /\ Contains(Upper(PyStr(r.icd10)), S_C50))
        sel == [i \in 1..Len(kept) |-> Project(RenameRow(kept[i], MortalityRename), MortalityKeep)]
    IN Table(MortalityKeep,
         SortByCountryYear([i \in 1..Len(sel) |->
           [sel[i] EXCEPT !.year = to_numeric(sel[i].year),
                          !.mortality_rate = to_numeric(sel[i].mortality_rate)]]))

ExamRename ==
  [geo |-> "country", TIME_PERIOD |-> "year", age |-> "age_group",
   quant_inc |-> "income_quintile", OBS_VALUE |-> "exam_rate"]

ExamKeep == {"country", "year", "duration", "age_group", "income_quintile", "unit", "exam_rate"}

\* r sorts before s under sort_values(by=["country", "income_quintile"]);
\* a missing quintile sorts last
CountryQuintileLess(r, s) ==
  \/ CountryRank(r.country) < CountryRank(s.country)
  \/ /\ r.country = s.country
     /\ ~IsNa(r.income_quintile)
     /\ \/ IsNa(s.income_quintile)
        \/ /\ PyStr(r.income_quintile) # PyStr(s.income_quintile)
           /\ LexLeq(PyStr(r.income_quintile), PyStr(s.income_quintile))

RECURSIVE InsertByCountryQuintile(_, _)
InsertByCountryQuintile(r, s) ==
  IF s = <<>> THEN <<r>>
  ELSE IF CountryQuintileLess(r, Head(s)) THEN <<r>> \o s
  ELSE <<Head(s)>> \o InsertByCountryQuintile(r, Tail(s))

RECURSIVE SortByCountryQuintile(_)
\* df.sort_values(by=["country", "income_quintile"]).reset_index(drop=True)
SortByCountryQuintile(rows) ==
  IF rows = <<>> THEN <<>>
  ELSE InsertByCountryQuintile(rows[Len(rows)], SortByCountryQuintile(SubSeq(rows, 1, Len(rows) - 1)))

\* prep.clean_exam_income on the table read from the file
clean_exam_income(raw) ==
  IF "OBS_VALUE" \notin raw.columns THEN Raise("KeyError")
  ELSE IF ~(ExamKeep \subseteq RenameColumns(raw.columns, ExamRename)) THEN Raise("KeyError")
  ELSE
    LET kept == SelectSeq(raw.rows, LAMBDA r : ~IsNa(r.OBS_VALUE))
        sel == [i \in 1..Len(kept) |-> Project(RenameRow(kept[i], ExamRename), ExamKeep)]
    IN IF \E i \in 1..Len(sel) : ~IntCastable(sel[i].year) THEN Raise("ValueError")
       ELSE Table(ExamKeep,
              SortByCountryQuintile([i \in 1..Len(sel) |->
                [sel[i] EXCEPT !.year = to_numeric(sel[i].year),
                               !.exam_rate = to_numeric(sel[i].exam_rate)]]))

-----------------------------------------------------------------------------
(* Inputs of the cleaners: the tables read from the three files *)

MaxRawRows == 2

\* TIME_PERIOD cells of a file: a year, the text "n/a", an empty field
RawYears == {IntCell(2010), StrCell(<<110, 47, 97>>), NaCell}

\* OBS_VALUE cells of a file: a number, the text ":"
RawValues == {IntCell(120), StrCell(<<58>>)}

RawIcd10 == {StrCell(S_C50), StrCell(<<67, 53, 51>>), StrCell(<<67, 53, 48, 95, 67, 53, 49>>)}  \* C50 C53 C50_C51

RawSource == {StrCell(S_PRG), StrCell(<<83, 85, 82, 86>>)}  \* PRG SURV

RawSex == {StrCell(S_F), StrCell(<<77>>), StrCell(<<68, 73, 70, 70>>)}  \* F M DIFF

RawScreeningRows ==
  [geo : {"FR"}, TIME_PERIOD : RawYears, OBS_VALUE : RawValues,
   icd10 : {StrCell(S_C50), StrCell(<<67, 53, 51>>)}, source : RawSource, unit : {"PC"}]

RawScreeningColumns ==
  {{"geo", "TIME_PERIOD", "OBS_VALUE", "icd10", "source", "unit"} \ missing :
     missing \in {{}, {"icd10"}, {"source"}, {"unit"}, {"TIME_PERIOD"}}}

RawMortalityRows ==
  [geo : {"FR"}, TIME_PERIOD : {IntCell(2010), StrCell(<<110, 47, 97>>)}, OBS_VALUE : RawValues,
   age : {AgeTotal}, sex : RawSex, icd10 : RawIcd10, unit : {"RT"}]

RawMortalityColumns ==
  {{"geo", "TIME_PERIOD", "OBS_VALUE", "age", "sex", "icd10", "unit"} \ missing :
     missing \in {{}, {"sex"}, {"icd10"}, {"age"}}}

RawExamRows ==
  [geo : {"FR"}, TIME_PERIOD : {IntCell(2010), StrCell(<<110, 47, 97>>)},
   OBS_VALUE : RawValues \cup {NaCell}, age : ExamYoungAges, quant_inc : RawQ1 \cup RawQ5,
   duration : {"Y1"}, unit : {"PC"}]

RawExamColumns ==
  {{"geo", "TIME_PERIOD", "OBS_VALUE", "age", "quant_inc", "duration", "unit"} \ missing :
     missing \in {{}, {"OBS_VALUE"}, {"quant_inc"}, {"duration"}}}

RawTables(rowset, colsets) ==
  {Table(cols, ProjectRows(rows, cols)) : cols \in colsets, rows \in SeqsUpTo(rowset, MaxRawRows)}

InitClean ==
  /\ \/ src = "screening" /\ df \in RawTables(RawScreeningRows, RawScreeningColumns)
     \/ src = "mortality" /\ df \in RawTables(RawMortalityRows, RawMortalityColumns)
     \/ src = "exam_income" /\ df \in RawTables(RawExamRows, RawExamColumns)
  /\ countries = {}
  /\ y0 = Null
  /\ y1 = Null
  /\ val = NaCell
  /\ op = "load"
  /\ out = Null

CleanScreening ==
  /\ op = "load"
  /\ src = "screening"
  /\ out' = clean_screening(df)
  /\ op' = "clean_screening"
  /\ UNCHANGED <<df, countries, y0, y1, src, val>>

CleanMortality ==
  /\ op = "load"
  /\ src = "mortality"
  /\ out' = clean_mortality(df)
  /\ op' = "clean_mortality"
  /\ UNCHANGED <<df, countries, y0, y1, src, val>>

CleanExamIncome ==
  /\ op = "load"
  /\ src = "exam_income"
  /\ out' = clean_exam_income(df)
  /\ op' = "clean_exam_income"
  /\ UNCHANGED <<df, countries, y0, y1, src, val>>

NextClean == CleanScreening \/ CleanMortality \/ CleanExamIncome

SpecClean == InitClean /\ [][NextClean]_vars

Cleaned == op \in {"clean_screening", "clean_mortality", "clean_exam_income"}

\* C13: in every cleaner a missing column never raises: each categorical
\* filter (icd10, source, sex), each rename and each column selection is a
\* no-op when its source column is absent, so the cleaner returns a table.
C13_MissingColumnNeverRaises ==
  Cleaned => (out # Raise("KeyError") /\ IsTable(out))

\* the raw cell c is a number or a text that parses as one
Parseable(c) == c.t = "int"

\* C14: in every cleaner a year or metric value that cannot be parsed as a
\* number becomes null in the cleaned table and does not raise; this holds for
\* the year of clean_screening and clean_exam_income as for clean_mortality.
C14_UnparseableBecomesNull ==
  Cleaned =>
    /\ out # Raise("ValueError")
    /\ IsTable(out) =>
         \A i \in 1..Len(out.rows) :
           /\ out.rows[i].year \in {Null, Some(2010)}
           /\ (\A j \in 1..Len(df.rows) : ~Parseable(df.rows[j].OBS_VALUE)) =>
                \A c \in {"screening_rate", "mortality_rate", "exam_rate"} \cap out.columns :
                  out.rows[i][c] = Null

\* the rows of the file that the cleaned table is to hold, by exact code
WantedRows ==
  SelectSeq(df.rows, LAMBDA r :
    IF op = "clean_screening" THEN r.icd10 = StrCell(S_C50) /\ r.source = StrCell(S_PRG)
    ELSE r.sex = StrCell(S_F) /\ r.icd10 = StrCell(S_C50))

\* C15: every row of the cleaned screening table has icd10 C50 and source PRG,
\* every row of the cleaned mortality table is a female record (sex F) of
\* diagnosis code C50; rows that do not match are absent and the matching rows
\* are all present.
C15_OnlyMatchingRows ==
  (op \in {"clean_screening", "clean_mortality"} /\ IsTable(out)) =>
    /\ Len(out.rows) = Len(WantedRows)
    /\ \A i \in 1..Len(out.rows) :
         /\ out.rows[i].icd10 = StrCell(S_C50)
         /\ op = "clean_screening" => out.rows[i].source = StrCell(S_PRG)
         /\ op = "clean_mortality" => out.rows[i].sex = StrCell(S_F)

-----------------------------------------------------------------------------
(* The application script: load, then the four sections, rerun on interaction *)

Datasets == {"screening", "mortality", "exam_income"}

\* a file that pd.read_csv reads: the table of its rows
OkFile(raw) == [file |-> "ok", data |-> raw]

\* a file that is absent, and one that pd.read_csv cannot parse
MissingFile == [file |-> "missing", data |-> Table({}, <<>>)]

GarbledFile == [file |-> "garbled", data |-> Table({}, <<>>)]

\* pd.read_csv(path)
read_csv(f) ==
  CASE f.file = "ok" -> f.data
    [] f.file = "missing" -> Raise("FileNotFoundError")
    [] f.file = "garbled" -> Raise("ParserError")

\* a cleaner called on a path: the exception of read_csv propagates
clean_screening_path(f) == IF IsTable(read_csv(f)) THEN clean_screening(read_csv(f)) ELSE read_csv(f)

clean_mortality_path(f) == IF IsTable(read_csv(f)) THEN clean_mortality(read_csv(f)) ELSE read_csv(f)

clean_exam_income_path(f) == IF IsTable(read_csv(f)) THEN clean_exam_income(read_csv(f)) ELSE read_csv(f)

NoTables == [n \in Datasets |-> Table({}, <<>>)]

\* io.load_data: the three cleaners in sequence, no exception handler; reads
\* counts the files opened
load_data(files) ==
  LET s == clean_screening_path(files.screening)
      m == clean_mortality_path(files.mortality)
      e == clean_exam_income_path(files.exam_income)
  IN IF ~IsTable(s) THEN [error |-> s, tables |-> NoTables, reads |-> {"screening"}]
     ELSE IF ~IsTable(m) THEN [error |-> m, tables |-> NoTables, reads |-> {"screening", "mortality"}]
     ELSE IF ~IsTable(e) THEN [error |-> e, tables |-> NoTables, reads |-> Datasets]
     ELSE [error |-> Null,
           tables |-> [screening |-> s, mortality |-> m, exam_income |-> e],
           reads |-> Datasets]

\* a call f(d) on a table object: arg is what the caller's object holds after
\* the call, ret is the returned table.  _coerce_year rebinds its parameter
\* to a copy before it assigns the year column, so the caller's object is
\* not written.
ov_coerce_year_call(d) == [arg |-> d, ret |-> coerce_year(d)]

\* conclusion._coerce_year: d = df.copy() before the assignment
co_coerce_year_call(d) == [arg |-> d, ret |-> coerce_year(d)]

dd_normalize_income_DropUnrecognized(d) ==
  IF Empty(d) THEN Table({}, <<>>)
  ELSE Table(d.columns,
         SelectSeq([i \in 1..Len(d.rows) |->
                      [d.rows[i] EXCEPT !.income_quintile = dd_canon_quintile(d.rows[i].income_quintile)]],
                   LAMBDA r : ~IsNa(r.income_quintile)))

\* deep_dives._normalize_income on a cleaned table (the renames find nothing
\* to rename, the numeric columns are numeric already)
dd_normalize_income(d) ==
  IF Empty(d) THEN Table({}, <<>>)
  ELSE IF "income_quintile" \in d.columns
    THEN Table(d.columns,
           [i \in 1..Len(d.rows) |->
              [d.rows[i] EXCEPT !.income_quintile = dd_canon_quintile(d.rows[i].income_quintile)]])
    ELSE d

\* deep_dives._normalize_screening on a cleaned table
dd_normalize_screening(d) ==
  IF Empty(d) THEN Table({}, <<>>)
  ELSE Table(d.columns,
         SelectSeq(d.rows, LAMBDA r :
           /\ "icd10" \in d.columns => Upper(PyStr(r.icd10)) = S_C50
           /\ "source" \in d.columns => Upper(PyStr(r.source)) = S_PRG))

\* deep_dives._normalize_mortality on a cleaned table
dd_normalize_mortality(d) ==
  IF Empty(d) THEN Table({}, <<>>)
  ELSE Table(d.columns,
         SelectSeq(d.rows, LAMBDA r :
           /\ "sex" \in d.columns => Contains(Upper(PyStr(r.sex)), S_F)
           /\ "icd10" \in d.columns => Contains(Upper(PyStr(r.icd10)), S_C50)))

dd_normalize_income_call_InPlace(d) == [arg |-> dd_normalize_income(d), ret |-> dd_normalize_income(d)]

\* the three _normalize_* start with d = df.copy(): the assignments of the
\* canonical quintile and of the numeric columns go to the copy
dd_normalize_income_call(d) == [arg |-> d, ret |-> dd_normalize_income(d)]

dd_normalize_screening_call(d) == [arg |-> d, ret |-> dd_normalize_screening(d)]

dd_normalize_mortality_call(d) == [arg |-> d, ret |-> dd_normalize_mortality(d)]

\* intro.render_intro._meta_stats: "first to last" year, "" without a table
intro_meta_stats(d) ==
  IF Empty(d) \/ "year" \notin d.columns THEN Blank
  ELSE IF MinYear(d.rows) = Null THEN Raise("TypeError")
  ELSE [txt |-> "years", first |-> Val(MinYear(d.rows)), last |-> Val(MaxYear(d.rows))]

\* intro.render_intro: the coverage KPIs
render_intro(t) ==
  [section |-> "intro",
   years |-> [n \in Datasets |-> intro_meta_stats(t[n])],
   countries |-> Cardinality(UNION {IF Empty(t[n]) \/ "country" \notin t[n].columns THEN {}
                                    ELSE {t[n].rows[i].country : i \in 1..Len(t[n].rows)} : n \in Datasets})]

MaxRuns == 2

GoodScreeningFile ==
  OkFile(Table({"geo", "TIME_PERIOD", "OBS_VALUE", "icd10", "source", "unit"},
    <<[geo |-> "FR", TIME_PERIOD |-> IntCell(2010), OBS_VALUE |-> IntCell(120),
       icd10 |-> StrCell(S_C50), source |-> StrCell(S_PRG), unit |-> "PC"],
      [geo |-> "FR", TIME_PERIOD |-> IntCell(2020), OBS_VALUE |-> IntCell(220),
       icd10 |-> StrCell(S_C50), source |-> StrCell(S_PRG), unit |-> "PC"]>>))

GoodMortalityFile ==
  OkFile(Table({"geo", "TIME_PERIOD", "OBS_VALUE", "age", "sex", "icd10", "unit"},
    <<[geo |-> "FR", TIME_PERIOD |-> IntCell(2010), OBS_VALUE |-> IntCell(40), age |-> AgeTotal,
       sex |-> StrCell(S_F), icd10 |-> StrCell(S_C50), unit |-> "RT"]>>))

GoodExamFile ==
  OkFile(Table({"geo", "TIME_PERIOD", "OBS_VALUE", "age", "quant_inc", "duration", "unit"},
    <<[geo |-> "FR", TIME_PERIOD |-> IntCell(2010), OBS_VALUE |-> IntCell(74),
       age |-> StrCell(<<89, 50, 53, 45, 51, 52>>), quant_inc |-> StrCell(<<81, 85, 49>>),
       duration |-> "Y1", unit |-> "PC"],
      [geo |-> "FR", TIME_PERIOD |-> IntCell(2010), OBS_VALUE |-> IntCell(168),
       age |-> StrCell(<<89, 50, 53, 45, 51, 52>>), quant_inc |-> StrCell(<<81, 85, 53>>),
       duration |-> "Y1", unit |-> "PC"]>>))

\* the states of the three files on disk
FileSets ==
  [screening : {GoodScreeningFile, MissingFile, GarbledFile},
   mortality : {GoodMortalityFile, MissingFile, GarbledFile},
   exam_income : {GoodExamFile, MissingFile, GarbledFile}]

AppSelections == {<<{}, Some(2010), Some(2020)>>, <<{"FR"}, Some(2010), Some(2020)>>,
                  <<{"FR"}, Some(2020), Some(2020)>>, <<{"DE"}, Some(2010), Some(2020)>>}

InitApp ==
  /\ src \in FileSets
  /\ \E s \in AppSelections : countries = s[1] /\ y0 = s[2] /\ y1 = s[3]
  /\ df = NoTables
  /\ val = [n \in Datasets |-> 0]
  /\ op = "start"
  /\ out = Null

\* app.py line 117: the module-level call of load_data()
LoadData ==
  /\ op = "start"
  /\ df' = load_data(src).tables
  /\ val' = [n \in Datasets |-> val[n] + (IF n \in load_data(src).reads THEN 1 ELSE 0)]
  /\ out' = load_data(src).error
  /\ op' = IF load_data(src).error = Null THEN "loaded" ELSE "crashed"
  /\ UNCHANGED <<src, countries, y0, y1>>

RenderIntro ==
  /\ op = "loaded"
  /\ out' = render_intro(df)
  /\ op' = "intro"
  /\ UNCHANGED <<df, src, countries, y0, y1, val>>

RenderOverview ==
  /\ op = "intro"
  /\ \E fs \in ov_apply_filters(df.screening, countries, y0, y1),
        fe \in ov_apply_filters(df.exam_income, countries, y0, y1) :
       out' = [section |-> "overview",
               kpi1 |-> IF IsTable(fs) THEN ov_kpi(fs, "screening_rate") ELSE fs,
               kpi3 |-> IF IsTable(fe) THEN ov_kpi_gap(fe) ELSE fe]
  /\ df' = [screening |-> ov_coerce_year_call(df.screening).arg,
            mortality |-> ov_coerce_year_call(df.mortality).arg,
            exam_income |-> ov_coerce_year_call(df.exam_income).arg]
  /\ op' = "overview"
  /\ UNCHANGED <<src, countries, y0, y1, val>>

RenderDeepDives ==
  /\ op = "overview"
  /\ \E fs \in dd_sub(dd_normalize_screening_call(df.screening).ret, y0, y1, countries),
        fi \in dd_sub(dd_normalize_income_call(df.exam_income).ret, y0, y1, countries) :
       out' = [section |-> "deep_dives",
               trend |-> IF IsTable(fs) /\ ~Empty(fs) THEN Shown(dd_screening_trend(fs))
                         ELSE IF IsTable(fs) THEN Info("unavailable") ELSE fs,
               download |-> fi]
  /\ df' = [screening |-> dd_normalize_screening_call(df.screening).arg,
            mortality |-> dd_normalize_mortality_call(df.mortality).arg,
            exam_income |-> dd_normalize_income_call(df.exam_income).arg]
  /\ op' = "deep_dives"
  /\ UNCHANGED <<src, countries, y0, y1, val>>

RenderConclusion ==
  /\ op = "deep_dives"
  /\ \E fs \in co_apply_filters(df.screening, countries, y0, y1),
        fe \in co_apply_filters(df.exam_income, countries, y0, y1) :
       out' = [section |-> "conclusion",
               kpi1 |-> IF IsTable(fs) THEN co_kpi(fs, "screening_rate") ELSE fs,
               kpi3 |-> IF IsTable(fe) THEN co_kpi_gap(fe) ELSE fe]
  /\ df' = [screening |-> co_coerce_year_call(df.screening).arg,
            mortality |-> co_coerce_year_call(df.mortality).arg,
            exam_income |-> co_coerce_year_call(df.exam_income).arg]
  /\ op' = "conclusion"
  /\ UNCHANGED <<src, countries, y0, y1, val>>

\* a widget changes after a complete run: Streamlit runs app.py again from
\* its first line
Interact ==
  /\ op = "conclusion"
  /\ val.screening < MaxRuns
  /\ \E s \in AppSelections :
       /\ <<countries, y0, y1>> # s
       /\ countries' = s[1] /\ y0' = s[2] /\ y1' = s[3]
  /\ df' = NoTables
  /\ out' = Null
  /\ op' = "start"
  /\ UNCHANGED <<src, val>>

NextApp ==
  \/ LoadData
  \/ RenderIntro
  \/ RenderOverview
  \/ RenderDeepDives
  \/ RenderConclusion
  \/ Interact

SpecApp == InitApp /\ [][NextApp]_vars

\* the datasets whose file cannot be loaded
FailedLoads == {n \in Datasets : src[n].file # "ok"}

\* C12: when one of the three files is missing, unreadable or unparseable the
\* application does not crash: that dataset is an empty table, the other two
\* are loaded, and the load is fatal only when all three fail.
C12_LoadDegrades ==
  op \in {"loaded", "crashed"} =>
    /\ op = "crashed" <=> FailedLoads = Datasets
    /\ op = "loaded" =>
         \A n \in Datasets : Empty(df[n]) <=> n \in FailedLoads

\* C19: each file is read exactly once, at startup; no interaction makes the
\* application read a file again.
C19_FilesReadOnce ==
  \A n \in Datasets : val[n] <= 1

\* C16: rendering the sections does not change the loaded tables: after each
\* section the three tables hold exactly the rows and values load_data gave.
C16_InputsNotMutated ==
  op \in {"intro", "overview", "deep_dives", "conclusion"} => df = load_data(src).tables

\* all four sections have run over a loaded exam table whose quintile labels
\* are still the raw QU1 / QU5, although the deep dive canonicalised them
C16_Witness ==
  /\ op = "conclusion"
  /\ Len(df.exam_income.rows) = 2
  /\ df.exam_income.rows[1].income_quintile = StrCell(<<81, 85, 49>>)
  /\ out.kpi3 = FmtGap(Some(94), Some(2010))

-----------------------------------------------------------------------------
(* Rows with an unrecognised income quintile *)

\* render_deep_dives: y_min, y_max over the normalised tables that are not
\* empty (here the income table alone); 2000 and 2021 without any table
dd_year_bounds(inc) ==
  IF Empty(inc) THEN <<2000, 2021>>
  ELSE IF YearsOf(inc.rows) = {} THEN Raise("ValueError")
  ELSE <<Val(MinYear(inc.rows)), Val(MaxYear(inc.rows))>>

\* render_deep_dives: all_countries
dd_all_countries(inc) ==
  IF Empty(inc) \/ "country" \notin inc.columns THEN {}
  ELSE {inc.rows[i].country : i \in 1..Len(inc.rows)}

InitIncome ==
  /\ df \in ExamTables
  /\ countries \in {{}, {"FR"}}
  /\ \E yr \in {<<Some(2015), Some(2020)>>, <<Some(2020), Some(2020)>>} : y0 = yr[1] /\ y1 = yr[2]
  /\ src = "load"
  /\ val = NaCell
  /\ op = "load"
  /\ out = Null

\* render_deep_dives: inc, its bounds, and inc_f as offered for download
DdNormalizeIncome ==
  /\ op = "load"
  /\ \E f \in dd_sub(dd_normalize_income(df), y0, y1, countries) :
       out' = [inc |-> dd_normalize_income(df),
               bounds |-> dd_year_bounds(dd_normalize_income(df)),
               all_countries |-> dd_all_countries(dd_normalize_income(df)),
               download |-> f]
  /\ op' = "dd_normalize_income"
  /\ UNCHANGED <<df, countries, y0, y1, src, val>>

\* render_overview: ei_sub and the income-gap KPI computed from it
OvIncomeGap ==
  /\ op = "load"
  /\ \E f \in ov_apply_filters(df, countries, y0, y1) :
       out' = IF IsTable(f) THEN [sub |-> income_q1_q5_sub50(f), gap |-> ov_kpi_gap(f)] ELSE f
  /\ op' = "ov_income_gap"
  /\ UNCHANGED <<df, countries, y0, y1, src, val>>

NextIncome == DdNormalizeIncome \/ OvIncomeGap

SpecIncome == InitIncome /\ [][NextIncome]_vars

\* row i of the loaded table has a quintile label that is no quintile
UnrecognizedAt(i) == df.rows[i].income_quintile \in RawOther

\* the loaded table without its rows of unrecognised quintile
RecognizedOnly == Table(df.columns, SelectSeq(df.rows, LAMBDA r : r.income_quintile \notin RawOther))

\* C17: a row whose income quintile is unrecognised gets a null quintile and
\* is left out of the Q1/Q5 aggregates, but stays in the normalised table: it
\* is in the filtered table offered for download and counts in the year and
\* country bounds.
C17_UnrecognizedKept ==
  /\ op = "dd_normalize_income" /\ ~Empty(df) =>
       /\ Len(out.inc.rows) = Len(df.rows)
       /\ \A i \in 1..Len(df.rows) :
            /\ UnrecognizedAt(i) => out.inc.rows[i].income_quintile = NaCell
            /\ ~UnrecognizedAt(i) => out.inc.rows[i].income_quintile \in {StrCell(S_Q1), StrCell(S_Q5)}
            /\ Project(out.inc.rows[i], ExamColumns \ {"income_quintile"})
                 = Project(df.rows[i], ExamColumns \ {"income_quintile"})
       /\ out.download.rows = SelectSeq(out.inc.rows, LAMBDA r :
            /\ Val(y0) <= Val(r.year) /\ Val(r.year) <= Val(y1)
            /\ countries = {} \/ r.country \in countries)
       /\ out.bounds = <<Val(MinYear(df.rows)), Val(MaxYear(df.rows))>>
       /\ out.all_countries = {df.rows[i].country : i \in 1..Len(df.rows)}
  /\ op = "ov_income_gap" =>
       /\ \A i \in 1..Len(out.sub.rows) : out.sub.rows[i].income_quintile \in {StrCell(S_Q1), StrCell(S_Q5)}
       /\ \E f \in ov_apply_filters(RecognizedOnly, countries, y0, y1) : out.gap = ov_kpi_gap(f)

\* a Q1 row of year 2020 before a row labelled TOTAL of year 2015: the TOTAL
\* row has a null quintile, is offered for download and sets the lower bound
C17_Witness ==
  /\ op = "dd_normalize_income"
  /\ Len(df.rows) = 2
  /\ ~UnrecognizedAt(1) /\ UnrecognizedAt(2)
  /\ df.rows[1].year = Some(2020) /\ df.rows[2].year = Some(2015)
  /\ y0 = Some(2015)
  /\ Len(out.download.rows) = 2
  /\ out.download.rows[2].income_quintile = NaCell
  /\ out.bounds = <<2015, 2020>>

-----------------------------------------------------------------------------
(* Selections that leave no row *)

\* C18: when the selection leaves no row of the table, the section renders
\* without raising and the KPI shows an explicit "no data" state (the
\* placeholder), neither a blank nor a computed value.
C18_EmptySelectionExplicit ==
  (Rendered /\ df.rows # <<>> /\ SelectedRows = <<>>) =>
    /\ "value" \in DOMAIN out
    /\ out.value = Dash
    /\ out.delta = Blank

-----------------------------------------------------------------------------
(* The conclusion's income gap and the under-50 restriction of its label *)

\* the selected rows of women under 50
Under50Rows == SelectSeq(SelectedRows, LAMBDA r : r.age_group \in ExamYoungAges)

Under50Years == {Val(Under50Rows[i].year) : i \in 1..Len(Under50Rows)}

Under50Year == CHOOSE y \in Under50Years : \A z \in Under50Years : y >= z

\* exam rates of the under-50 rows of their latest year whose quintile is in qs
Under50Rates(qs) ==
  Column(SelectSeq(Under50Rows, LAMBDA r : r.year = Some(Under50Year) /\ r.income_quintile \in qs),
         "exam_rate")

\* C20: the conclusion's KPI "Income gap in last X-ray exam (<50)" is
\* median(Q5) - median(Q1) of exam_rate over the rows of women under 50 in
\* their latest survey year; no row of an age group of 50 or older contributes.
C20_ConclusionGapUnder50 ==
  (op = "render_conclusion" /\ "value" \in DOMAIN out) =>
    IF Under50Rows # <<>> /\ DropNa(Under50Rates(RawQ1)) # <<>> /\ DropNa(Under50Rates(RawQ5)) # <<>>
      THEN /\ out.value = [txt |-> "pp",
                           tenths |-> Tenths(Val(Median(Under50Rates(RawQ5)))
                                             - Val(Median(Under50Rates(RawQ1))))]
           /\ out.note = [txt |-> "year", year |-> Under50Year]
      ELSE out.value = Dash /\ out.note = Blank

-----------------------------------------------------------------------------
(* The age band denoted by a mortality age label *)

\* the highest age of the band an age label denotes: "Y_LT65" denotes the ages
\* below 65 (top 64), "Y45-49" the ages 45 to 49 (top 49); null for a label
\* that denotes no band (TOTAL, a missing age)
BandTop(s) ==
  LET u == Upper(s) IN
    IF MatchAt(u, S_Y_LT, 1) /\ AllDigits(SubSeq(u, 5, Len(u)))
      THEN Some(ParseDigits(SubSeq(u, 5, Len(u))) - 1)
    ELSE IF \E i \in 2..Len(u) : u[i] = 45 /\ AllDigits(SubSeq(u, i + 1, Len(u)))
      THEN LET i == CHOOSE j \in 2..Len(u) : u[j] = 45 /\ AllDigits(SubSeq(u, j + 1, Len(u)))
           IN Some(ParseDigits(SubSeq(u, i + 1, Len(u))))
    ELSE Null

\* the label denotes a band that lies entirely below 50 years
BelowFifty(s) == BandTop(s) # Null /\ Val(BandTop(s)) < 50

\* C21: every non-TOTAL row kept by the under-50 restriction of the mortality
\* table has an age band that lies entirely below 50 years; a label whose band
\* reaches 50 or above (Y_LT65) is not classified as under 50.
C21_Under50BandsBelowFifty ==
  (op = "mortality_under50" /\ "age" \in df.columns) =>
    \A i \in 1..Len(out.rows) :
      out.rows[i].age # AgeTotal => BelowFifty(PyStr(out.rows[i].age))

-----------------------------------------------------------------------------
(* Mortality KPI of the overview and of the conclusion *)

\* mort_sub[mort_sub["age"].astype(str) != "TOTAL"], or mort_sub itself
\* without an age column
ExplicitUnder50(sub) ==
  IF "age" \in sub.columns
    THEN Table(sub.columns, SelectSeq(sub.rows, LAMBDA r : PyStr(r.age) # S_TOTAL))
    ELSE sub

\* explicit if not explicit.empty else mort_sub
ChosenMortality(sub) == IF ~Empty(ExplicitUnder50(sub)) THEN ExplicitUnder50(sub) ELSE sub

\* overview.render_overview, KPI 2, on the filtered table
ov_kpi_mortality(f) ==
  LET mort_sub == mortality_under50(f) IN
    IF ~Empty(mort_sub) /\ {"mortality_rate", "year"} \subseteq mort_sub.columns
      THEN ov_kpi(ChosenMortality(mort_sub), "mortality_rate")
      ELSE [value |-> Blank, delta |-> Blank]

\* conclusion.render_conclusion, KPI 2, on the filtered table
co_kpi_mortality(f) ==
  LET mort_sub == mortality_under50(f) IN
    IF ~Empty(mort_sub) /\ {"mortality_rate", "year"} \subseteq mort_sub.columns
      THEN co_kpi(ChosenMortality(mort_sub), "mortality_rate")
      ELSE [value |-> Dash, delta |-> Blank]

MaxMortRows == 3

KpiAges == {AgeTotal, StrCell(<<89, 52, 53, 45, 52, 57>>), StrCell(<<89, 53, 48, 45, 53, 52>>)}  \* TOTAL Y45-49 Y50-54

KpiMortalityRows ==
  [country : Countries, year : {Some(2010), Some(2020)}, age : KpiAges,
   mortality_rate : {Null, Some(40), Some(80)}]

KpiMortalityTables ==
  {Table({"country", "year", "age", "mortality_rate"}, rows) :
     rows \in {w \in SeqsUpTo(KpiMortalityRows, MaxMortRows) : SortedByCountryYear(w)}}

InitMortKpi ==
  /\ df \in KpiMortalityTables
  /\ countries \in {{}, {"FR", "DE"}}
  /\ y0 = Some(2010)
  /\ y1 \in {Some(2010), Some(2020)}
  /\ src = "load"
  /\ val = NaCell
  /\ op = "load"
  /\ out = Null

RenderOverviewMortality ==
  /\ op = "load"
  /\ \E f \in ov_apply_filters(df, countries, y0, y1) :
       out' = IF IsTable(f) THEN ov_kpi_mortality(f) ELSE f
  /\ op' = "render_overview"
  /\ UNCHANGED <<df, countries, y0, y1, src, val>>

RenderConclusionMortality ==
  /\ op = "load"
  /\ \E f \in co_apply_filters(df, countries, y0, y1) :
       out' = IF IsTable(f) THEN co_kpi_mortality(f) ELSE f
  /\ op' = "render_conclusion"
  /\ UNCHANGED <<df, countries, y0, y1, src, val>>

NextMortKpi == RenderOverviewMortality \/ RenderConclusionMortality

SpecMortKpi == InitMortKpi /\ [][NextMortKpi]_vars

\* the selected rows of an age band below 50
SelectedExplicit == SelectSeq(SelectedRows, LAMBDA r : r.age # AgeTotal /\ Under50Mask(r))

\* the selected rows that the claim makes contribute: the explicit under-50
\* rows, and the TOTAL row of every country/year that has no explicit row
Contributing ==
  SelectSeq(SelectedRows, LAMBDA r :
    \/ r.age # AgeTotal /\ Under50Mask(r)
    \/ /\ r.age = AgeTotal
       /\ ~\E i \in 1..Len(SelectedExplicit) :
             /\ SelectedExplicit[i].country = r.country
             /\ SelectedExplicit[i].year = r.year)

\* C22: the mortality KPI uses a TOTAL row as a fallback exactly for the
\* country/years of the selection that have no explicit under-50 row: the
\* KPI is the one computed over the explicit under-50 rows together with the
\* TOTAL rows of the country/years that have only a TOTAL row.
C22_TotalFallbackPerCountryYear ==
  (Rendered /\ "value" \in DOMAIN out) =>
    \/ op = "render_overview"
       /\ out = ov_kpi(Table(df.columns, Contributing), "mortality_rate")
    \/ op = "render_conclusion"
       /\ out = co_kpi(Table(df.columns, Contributing), "mortality_rate")

-----------------------------------------------------------------------------
(* Deep dives: income gap by pivot table *)

\* the alternatives of r"(15-24|25-34|30-39|35-44|40-49|45-49|Y_LT50|Y_GE16_LT50)"
DdSub50Patterns == {<<49, 53, 45, 50, 52>>,
                    <<50, 53, 45, 51, 52>>,
                    <<51, 48, 45, 51, 57>>,
                    <<51, 53, 45, 52, 52>>,
                    <<52, 48, 45, 52, 57>>,
                    <<52, 53, 45, 52, 57>>,
                    <<89, 95, 76, 84, 53, 48>>,
                    <<89, 95, 71, 69, 49, 54, 95, 76, 84, 53, 48>>}

\* age_group.astype(str).str.contains(<the pattern>, case=False) on one row
dd_sub50_mask(r) == \E p \in DdSub50Patterns : ContainsNoCase(PyStr(r.age_group), p)

\* one cell of pivot_table(index=idx, columns="income_quintile",
\* values="exam_rate", aggfunc="median")
PivotMedian(rows, idx, i, q) ==
  Median(Column(SelectSeq(rows, LAMBDA r : r[idx] = i /\ r.income_quintile = q), "exam_rate"))

\* the (index, quintile) groups of the pivot table: a missing quintile forms
\* no group and a group whose median is NaN is dropped (dropna=True)
PivotGroups(rows, idx) ==
  {<<rows[k][idx], rows[k].income_quintile>> :
     k \in {j \in 1..Len(rows) :
              /\ ~IsNa(rows[j].income_quintile)
              /\ PivotMedian(rows, idx, rows[j][idx], rows[j].income_quintile) # Null}}

\* the columns of the pivot table
PivotColumns(rows, idx) == {g[2] : g \in PivotGroups(rows, idx)}

\* the index of the pivot table
PivotIndex(rows, idx) == {g[1] : g \in PivotGroups(rows, idx)}

\* .assign(gap=lambda d: d.get("Q5") - d.get("Q1")): d.get of a column the
\* pivot does not have is None, and None minus a column (or minus None) raises
\* TypeError; the result maps each index value to its gap
dd_gap_pivot(rows, idx) ==
  IF StrCell(S_Q5) \notin PivotColumns(rows, idx) \/ StrCell(S_Q1) \notin PivotColumns(rows, idx)
    THEN Raise("TypeError")
    ELSE [gaps |-> [i \in PivotIndex(rows, idx) |->
                      Gap(PivotMedian(rows, idx, i, StrCell(S_Q5)), PivotMedian(rows, idx, i, StrCell(S_Q1)))]]

\* .dropna(subset=["gap"]) of the pivot's result
DropNullGaps(g) == [i \in {j \in DOMAIN g : g[j] # Null} |-> g[i]]

\* no gap table: gap = pd.DataFrame()
NoGap == [gaps |-> <<>>]

Raised(x) == "raise" \in DOMAIN x

-----------------------------------------------------------------------------
(* Deep dives: sidebar *)

\* render_deep_dives: all_countries over the three normalised tables
dd_countries_of(d) ==
  IF Empty(d) \/ "country" \notin d.columns THEN {}
  ELSE {d.rows[i].country : i \in 1..Len(d.rows)}

\* the years of the tables that are not empty
dd_years_of(t) ==
  UNION {YearsOf(t[n].rows) : n \in {k \in Datasets : ~Empty(t[k])}}

\* render_deep_dives: y_min and y_max; 2000 and 2021 when every table is empty
dd_y_min(t) ==
  IF \A n \in Datasets : Empty(t[n]) THEN 2000
  ELSE CHOOSE y \in dd_years_of(t) : \A z \in dd_years_of(t) : y <= z

dd_y_max(t) ==
  IF \A n \in Datasets : Empty(t[n]) THEN 2021
  ELSE CHOOSE y \in dd_years_of(t) : \A z \in dd_years_of(t) : y >= z

\* the three normalised tables: scr, mort, inc
dd_normalized(t) ==
  [screening |-> dd_normalize_screening(t.screening),
   mortality |-> dd_normalize_mortality(t.mortality),
   exam_income |-> dd_normalize_income(t.exam_income)]

\* the choices of the sidebar: a primary country among all_countries ("" when
\* there is none), peers among the others, a year range inside the bounds
DdSidebar(t) ==
  LET all == UNION {dd_countries_of(t[n]) : n \in Datasets} IN
    {s \in [primary : IF all = {} THEN {""} ELSE all,
             peers : SUBSET all,
             y0 : dd_y_min(t)..dd_y_max(t),
             y1 : dd_y_min(t)..dd_y_max(t)] :
       s.primary \notin s.peers /\ s.y0 <= s.y1}

\* sel_countries = [c for c in [primary] + peers if c], as a set
dd_sel_countries(s) == (IF s.primary = "" THEN {} ELSE {s.primary}) \cup s.peers

-----------------------------------------------------------------------------
(* Deep dives, tab 3: Inequality *)

\* render_deep_dives, tab 3, on inc_f with the sidebar's choices s and the
\* country c_heat picked in the heatmap selector
dd_inequality(inc_f, s, c_heat) ==
  IF ~Empty(inc_f) /\ {"country", "year", "age_group", "income_quintile", "exam_rate"} \subseteq inc_f.columns THEN
    IF YearsOf(inc_f.rows) = {} THEN Raise("ValueError")
    ELSE
      LET last_y == MaxYear(inc_f.rows)
          e == RowsAtYear(inc_f.rows, last_y)
          default_country == IF dd_sel_countries(s) # {} THEN s.primary ELSE e[1].country
          options == {e[i].country : i \in 1..Len(e)}
          picked == IF c_heat \in options THEN c_heat ELSE default_country
          ec == SelectSeq(e, LAMBDA r : r.country = picked)
          sub50 == SelectSeq(ec, LAMBDA r : dd_sub50_mask(r))
      IN IF default_country \notin options THEN Raise("ValueError")
         ELSE IF sub50 # <<>> /\ Raised(dd_gap_pivot(sub50, "age_group")) THEN dd_gap_pivot(sub50, "age_group")
         ELSE [info |-> "", last_y |-> Val(last_y), options |-> options,
               default_country |-> default_country, heatmap |-> ec,
               dumbbell |-> IF sub50 # <<>> THEN DropNullGaps(dd_gap_pivot(sub50, "age_group").gaps)
                            ELSE <<>>]
  ELSE [info |-> "missing columns"]

-----------------------------------------------------------------------------
(* Deep dives, tab 4: Correlation Lab *)

\* _panel_for_year: s_agg
dd_panel_screening(scr, y) ==
  IF Empty(scr) THEN Table({}, <<>>)
  ELSE IF "age" \in scr.columns
    THEN Table({"country", "year", "screening_rate"},
               median_by(RowsAtYear(scr.rows, Some(y)), {"country", "year"}, "screening_rate"))
    ELSE Table({"country", "year", "screening_rate"},
               ProjectRows(RowsAtYear(scr.rows, Some(y)), {"country", "year", "screening_rate"}))

\* _panel_for_year: m_agg; share_u50 is assigned only to a table with rows
dd_panel_mortality(mort, y) ==
  IF Empty(mort) THEN Table({}, <<>>)
  ELSE IF "age" \notin mort.columns THEN Raise("AttributeError")
  ELSE IF dd_share_panel(mort, y).rows = <<>>
    THEN Table({"country", "year", "mort_u50", "mort_total"}, <<>>)
    ELSE Table({"country", "year", "mort_u50", "mort_total", "share_u50"}, dd_share_panel(mort, y).rows)

\* _panel_for_year: gap, from the last survey year not after y
dd_panel_gap(inc, y) ==
  IF Empty(inc) THEN NoGap
  ELSE LET e_y == SelectSeq(inc.rows, LAMBDA r : r.year # Null /\ Val(r.year) <= y)
           last_svy == MaxYear(e_y)
           sub50 == SelectSeq(RowsAtYear(e_y, last_svy), LAMBDA r : dd_sub50_mask(r))
       IN IF e_y = <<>> \/ sub50 = <<>> THEN NoGap
          ELSE IF Raised(dd_gap_pivot(sub50, "country")) THEN dd_gap_pivot(sub50, "country")
          ELSE [gaps |-> dd_gap_pivot(sub50, "country").gaps, svy_year |-> Val(last_svy)]

RECURSIVE Flatten(_)
\* the concatenation of a sequence of sequences
Flatten(ss) == IF ss = <<>> THEN <<>> ELSE Head(ss) \o Flatten(Tail(ss))

\* the rows of pd.merge(s, m, on=["country", "year"], how="outer") for one key
MergeAtKey(s, m, k) ==
  LET left == SelectSeq(s, LAMBDA r : Project(r, {"country", "year"}) = k)
      right == SelectSeq(m, LAMBDA r : Project(r, {"country", "year"}) = k)
      rates == IF left = <<>> THEN <<Null>> ELSE Column(left, "screening_rate")
      found == right # <<>>
  IN [i \in 1..Len(rates) |->
        [country |-> k.country, year |-> k.year, screening_rate |-> rates[i],
         mort_u50 |-> IF found THEN right[1].mort_u50 ELSE Null,
         mort_total |-> IF found THEN right[1].mort_total ELSE Null,
         share_u50 |-> IF found THEN right[1].share_u50 ELSE Null]]

\* pd.merge(panel, m_agg, on=["country", "year"], how="outer"): a panel
\* without columns has no key to merge on
dd_merge_outer(panel, m_agg) ==
  IF ~({"country", "year"} \subseteq panel.columns) THEN Raise("KeyError")
  ELSE LET ks == SortKeys(GroupKeys(panel.rows, {"country", "year"}) \cup GroupKeys(m_agg.rows, {"country", "year"}))
       IN Table(panel.columns \cup m_agg.columns,
                Flatten([i \in 1..Len(ks) |-> MergeAtKey(panel.rows, m_agg.rows, ks[i])]))

\* pd.merge(panel, gap, on="country", how="left")
dd_merge_left(panel, gap) ==
  IF "country" \notin panel.columns THEN Raise("KeyError")
  ELSE Table(panel.columns \cup {"income_gap", "svy_year"},
             [i \in 1..Len(panel.rows) |->
                [c \in DOMAIN panel.rows[i] \cup {"income_gap", "svy_year"} |->
                   IF c = "income_gap"
                     THEN (IF panel.rows[i].country \in DOMAIN gap.gaps
                             THEN gap.gaps[panel.rows[i].country] ELSE Null)
                   ELSE IF c = "svy_year"
                     THEN (IF panel.rows[i].country \in DOMAIN gap.gaps
                             THEN Some(gap.svy_year) ELSE Null)
                   ELSE panel.rows[i][c]]])

\* _panel_for_year: the last step, year renamed to panel_year
dd_panel_rename(panel) ==
  IF ~Empty(panel)
    THEN Table(RenameColumns(panel.columns, [year |-> "panel_year"]),
               [i \in 1..Len(panel.rows) |-> RenameRow(panel.rows[i], [year |-> "panel_year"])])
    ELSE panel

\* render_deep_dives._panel_for_year on the normalised tables
dd_panel_for_year(scr, mort, inc, y) ==
  LET s_agg == dd_panel_screening(scr, y)
      m_agg == dd_panel_mortality(mort, y)
      gap == dd_panel_gap(inc, y)
      merged == IF ~Empty(m_agg) THEN dd_merge_outer(s_agg, m_agg) ELSE s_agg
  IN IF Raised(m_agg) THEN m_agg
     ELSE IF Raised(gap) THEN gap
     ELSE IF Raised(merged) THEN merged
     ELSE IF DOMAIN gap.gaps # {}
       THEN (IF Raised(dd_merge_left(merged, gap)) THEN dd_merge_left(merged, gap)
             ELSE dd_panel_rename(dd_merge_left(merged, gap)))
     ELSE dd_panel_rename(merged)

\* the outcomes offered by the "Outcome" selector
Outcomes == {"mort_u50", "share_u50", "mort_total"}

\* render_deep_dives, tab 4: the notice, or the scatter of the chosen outcome
\* (panel.dropna(subset=["screening_rate", yaxis]))
dd_correlation_lab(scr, mort, inc, corr_year, yaxis) ==
  LET panel == dd_panel_for_year(scr, mort, inc, corr_year) IN
    IF Raised(panel) THEN panel
    ELSE IF Empty(panel) THEN [info |-> "not enough", panel |-> panel]
    ELSE IF ~({"screening_rate", yaxis} \subseteq panel.columns) THEN Raise("KeyError")
    ELSE [info |-> "", panel |-> panel,
          scatter |-> SelectSeq(panel.rows, LAMBDA r : r.screening_rate # Null /\ r[yaxis] # Null)]

-----------------------------------------------------------------------------
(* Deep dives, tab 5: Europe Maps *)

\* scr[scr["year"].eq(y)].groupby("country")[col].median() as country -> median
MedianByCountry(rows, col) ==
  [c \in {rows[i].country : i \in 1..Len(rows)} |->
     Median(Column(SelectSeq(rows, LAMBDA r : r.country = c), col))]

\* the metrics offered by the "Map metric" selector
Metrics == {"Screening rate (latest)", "Mortality under 50 (latest)", "Income gap Q5 - Q1 (<50, latest)"}

\* nothing is drawn: "No data available for the selected metric."
NoMap == [info |-> "no data", drawn |-> "none", value |-> <<>>]

\* render_deep_dives, tab 5, income-gap branch
dd_map_gap(inc) ==
  IF Empty(inc) THEN NoMap
  ELSE IF YearsOf(inc.rows) = {} THEN Raise("ValueError")
  ELSE LET sub50 == SelectSeq(RowsAtYear(inc.rows, MaxYear(inc.rows)), LAMBDA r : dd_sub50_mask(r))
       IN IF sub50 = <<>> THEN NoMap
          ELSE IF Raised(dd_gap_pivot(sub50, "country")) THEN dd_gap_pivot(sub50, "country")
          ELSE IF DOMAIN DropNullGaps(dd_gap_pivot(sub50, "country").gaps) = {} THEN NoMap
          ELSE [info |-> "", drawn |-> "Income gap Q5 - Q1 (<50, latest)",
                value |-> DropNullGaps(dd_gap_pivot(sub50, "country").gaps)]

\* render_deep_dives, tab 5: the if / elif / else over the metric
dd_europe_map(scr, mort, inc, metric) ==
  IF metric = "Screening rate (latest)" /\ ~Empty(scr) THEN
    IF YearsOf(scr.rows) = {} THEN Raise("ValueError")
    ELSE [info |-> "", drawn |-> "Screening rate (latest)",
          value |-> MedianByCountry(RowsAtYear(scr.rows, MaxYear(scr.rows)), "screening_rate")]
  ELSE IF metric = "Mortality under 50 (latest)" /\ ~Empty(mort) THEN
    IF "age" \notin mort.columns THEN Raise("AttributeError")
    ELSE LET under == SelectSeq(mort.rows, LAMBDA r : dd_under_mask(r)) IN
      IF under = <<>> THEN NoMap
      ELSE IF YearsOf(under) = {} THEN Raise("ValueError")
      ELSE [info |-> "", drawn |-> "Mortality under 50 (latest)",
            value |-> MedianByCountry(RowsAtYear(under, MaxYear(under)), "mortality_rate")]
  ELSE dd_map_gap(inc)

-----------------------------------------------------------------------------
(* Deep dives: inputs and specification *)

MaxDeepRows == 2

DdYears == {2010, 2011}

DdScreeningRows ==
  [country : {"FR"}, year : {Some(y) : y \in DdYears}, screening_rate : {Null, Some(120)}]

DdScreeningTables ==
  {Table(ScreeningColumns, rows) : rows \in SeqsUpTo(DdScreeningRows, 1)}

DdMortalityRows ==
  [country : {"FR"}, year : {Some(y) : y \in DdYears},
   age : {AgeTotal, StrCell(<<89, 52, 53, 45, 52, 57>>)}, mortality_rate : {Some(40)}]

DdMortalityTables ==
  {Table(ShareColumns, rows) : rows \in SeqsUpTo(DdMortalityRows, 1)}

DdExamRows ==
  [country : Countries, year : {Some(y) : y \in DdYears},
   age_group : ExamYoungAges \cup ExamOldAges,
   income_quintile : {StrCell(<<81, 85, 49>>), StrCell(<<81, 85, 53>>)},
   exam_rate : {Some(74), Some(168)}]

DdExamTables ==
  {Table(ExamColumns, rows) :
     rows \in {w \in SeqsUpTo(DdExamRows, MaxDeepRows) : SortedByCountryQuintile(w)}}

InitDeepDive ==
  /\ df \in [screening : DdScreeningTables, mortality : DdMortalityTables, exam_income : DdExamTables]
  /\ countries = {}
  /\ y0 = Null
  /\ y1 = Null
  /\ src = "load"
  /\ val = NaCell
  /\ op = "load"
  /\ out = Null

\* render_deep_dives with the Inequality tab
DdInequality ==
  /\ op = "load"
  /\ \E s \in DdSidebar(dd_normalized(df)), c_heat \in Countries :
       /\ \E f \in dd_sub(dd_normalized(df).exam_income, Some(s.y0), Some(s.y1), dd_sel_countries(s)) :
            out' = IF IsTable(f) THEN dd_inequality(f, s, c_heat) ELSE f
       /\ countries' = dd_sel_countries(s)
       /\ y0' = Some(s.y0)
       /\ y1' = Some(s.y1)
       /\ val' = [primary |-> s.primary, c_heat |-> c_heat]
  /\ op' = "inequality"
  /\ UNCHANGED <<df, src>>

\* render_deep_dives with the Correlation Lab tab: a correlation year of the
\* selector (range(y_min, y_max + 1)) and an outcome
DdCorrelationLab ==
  /\ op = "load"
  /\ \E corr_year \in dd_y_min(dd_normalized(df))..dd_y_max(dd_normalized(df)), yaxis \in Outcomes :
       /\ out' = dd_correlation_lab(dd_normalized(df).screening, dd_normalized(df).mortality,
                                    dd_normalized(df).exam_income, corr_year, yaxis)
       /\ val' = [corr_year |-> corr_year, yaxis |-> yaxis]
  /\ op' = "correlation_lab"
  /\ UNCHANGED <<df, countries, y0, y1, src>>

\* render_deep_dives with the Europe Maps tab
DdEuropeMaps ==
  /\ op = "load"
  /\ \E metric \in Metrics :
       /\ out' = dd_europe_map(dd_normalized(df).screening, dd_normalized(df).mortality,
                               dd_normalized(df).exam_income, metric)
       /\ val' = [metric |-> metric]
  /\ op' = "europe_maps"
  /\ UNCHANGED <<df, countries, y0, y1, src>>

NextDeepDive == DdInequality \/ DdCorrelationLab \/ DdEuropeMaps

SpecDeepDive == InitDeepDive /\ [][NextDeepDive]_vars

\* the normalised tables of the run
Scr == dd_normalized(df).screening

Mort == dd_normalized(df).mortality

Inc == dd_normalized(df).exam_income

\* C23: for every correlation year offered by the selector, the Correlation
\* Lab shows the "Not enough overlapping data" notice or renders the scatter
\* of the chosen outcome; it never raises, in particular not when the year has
\* screening rows and no mortality rows, nor when the screening table is empty
\* and the mortality table is not.
\* (The years whose income-gap pivot lacks a quintile column are left to C25.)
C23_CorrelationLabNeverRaises ==
  (op = "correlation_lab" /\ ~Raised(dd_panel_gap(Inc, val.corr_year))) =>
    /\ ~Raised(out)
    /\ out.info = "not enough" \/ "scatter" \in DOMAIN out

\* inc_f: the rows of the normalised exam-income table in the sidebar's
\* selection
IncSelected ==
  SelectSeq(Inc.rows, LAMBDA r :
    /\ countries = {} \/ r.country \in countries
    /\ InRange(r, y0, y1))

\* the countries that have rows in the latest survey year of inc_f
LatestSurveyCountries ==
  {r.country : r \in {IncSelected[i] : i \in {j \in 1..Len(IncSelected) :
                                              IncSelected[j].year = MaxYear(IncSelected)}}}

\* C24: in the Inequality tab, whenever the filtered exam-income table is not
\* empty, the heatmap country selector is built without raising and its
\* default country is one of the countries that have rows in the latest
\* survey year of the filtered table, also when the primary country has no
\* row in that year and a peer has.
C24_HeatmapDefaultInOptions ==
  (op = "inequality" /\ IncSelected # <<>>) =>
    /\ ~(Raised(out) /\ out.raise = "ValueError")
    /\ "default_country" \in DOMAIN out => out.default_country \in LatestSurveyCountries

\* C25: every deep-dive income-gap computation (the dumbbell of the
\* Inequality tab, the correlation panel, the map metric) yields null without
\* raising when the under-50 rows of the year have no Q1 row or no Q5 row:
\* no run of these tabs ends in the TypeError of a missing pivot column.
C25_GapNullWithoutQuintile ==
  op \in {"inequality", "correlation_lab", "europe_maps"} =>
    ~(Raised(out) /\ out.raise = "TypeError")

\* C29: the Europe Maps tab shows the selected metric or the "No data
\* available for the selected metric" notice; when the dataset of the
\* selected metric is empty it shows the notice and never the values of
\* another metric.
C29_MapShowsSelectedMetric ==
  (op = "europe_maps" /\ ~Raised(out)) =>
    /\ out.drawn \in {"none", val.metric}
    /\ (val.metric = "Screening rate (latest)" /\ Empty(Scr)) => out.drawn = "none"
    /\ (val.metric = "Mortality under 50 (latest)" /\ Empty(Mort)) => out.drawn = "none"

-----------------------------------------------------------------------------
(* Takeaway sentences of the conclusion *)

\* conclusion._trend_wording: no phrase without both values; the threshold
\* 1.0 is 4 quarter units
trend_wording(first_val, last_val) ==
  IF first_val = Null \/ last_val = Null THEN [txt |-> "none"]
  ELSE IF Val(last_val) - Val(first_val) >= 4
    THEN [txt |-> "increased", tenths |-> Tenths(Val(last_val) - Val(first_val))]
  ELSE IF Val(last_val) - Val(first_val) <= -4
    THEN [txt |-> "decreased", tenths |-> Tenths(Val(first_val) - Val(last_val))]
  ELSE [txt |-> "stable"]

\* scr_last / mort_last is assigned: the table has rows, the columns and a year
co_last_assigned(f, col) == ~Empty(f) /\ {col, "year"} \subseteq f.columns /\ YearsOf(f.rows) # {}

\* scr_last / mort_last: the median of the latest year, NaN (null) when that
\* year has no rate
co_last(f, col) == Median(Column(RowsAtYear(f.rows, MaxYear(f.rows)), col))

\* scr_first / mort_first
co_first(f, col) == Median(Column(RowsAtYear(f.rows, MinYear(f.rows)), col))

\* scr_med / mort_med: medians by year, without the null ones
co_median_trend(f, col) ==
  IF ~Empty(f) /\ {col, "year"} \subseteq f.columns
    THEN SelectSeq(median_by(f.rows, {"year"}, col), LAMBDA r : r.year # Null /\ r[col] # Null)
    ELSE <<>>

\* render_conclusion: the screening sentence ("if scr_last is not None") and
\* the mortality sentence ("if mort_last is not None"); NaN is not None
co_sentence(f, col) ==
  IF co_last_assigned(f, col)
    THEN [written |-> TRUE, quoted |-> FmtNum(co_last(f, col)),
          trend |-> IF co_median_trend(f, col) # <<>>
                      THEN trend_wording(co_median_trend(f, col)[1][col],
                                         co_median_trend(f, col)[Len(co_median_trend(f, col))][col])
                      ELSE trend_wording(co_first(f, col), co_last(f, col)),
          change |-> co_kpi(f, col).delta]
    ELSE [written |-> FALSE]

\* muse of KPI 2, or the table itself when the KPI's test fails
co_muse(f) ==
  IF ~Empty(mortality_under50(f)) /\ {"mortality_rate", "year"} \subseteq mortality_under50(f).columns
    THEN ChosenMortality(mortality_under50(f))
    ELSE Table(f.columns, <<>>)

TakeawayMortalityRows ==
  [country : {"FR"}, year : {Some(2010), Some(2020)},
   age : {AgeTotal, StrCell(<<89, 52, 53, 45, 52, 57>>)},
   mortality_rate : {Null, Some(40), Some(80)}]

TakeawayTables ==
  ScreeningTables \cup
    {Table(ShareColumns, rows) :
       rows \in {w \in SeqsUpTo(TakeawayMortalityRows, MaxRows) : SortedByCountryYear(w)}}

InitTakeaway ==
  /\ df \in TakeawayTables
  /\ countries \in {{}, {"FR"}}
  /\ \E yr \in SliderRanges(df) : y0 = yr[1] /\ y1 = yr[2]
  /\ src = "load"
  /\ val = NaCell
  /\ op = "load"
  /\ out = Null

\* render_conclusion on the screening table: KPI 1 and the screening sentence
ConclusionScreeningTakeaway ==
  /\ op = "load"
  /\ "screening_rate" \in df.columns
  /\ \E f \in co_apply_filters(df, countries, y0, y1) :
       out' = IF IsTable(f)
                THEN [kpi |-> co_kpi(f, "screening_rate"), sentence |-> co_sentence(f, "screening_rate")]
                ELSE f
  /\ op' = "render_conclusion"
  /\ UNCHANGED <<df, countries, y0, y1, src, val>>

\* render_conclusion on the mortality table: KPI 2 and the mortality sentence
ConclusionMortalityTakeaway ==
  /\ op = "load"
  /\ "mortality_rate" \in df.columns
  /\ \E f \in co_apply_filters(df, countries, y0, y1) :
       out' = IF IsTable(f)
                THEN [kpi |-> co_kpi_mortality(f), sentence |-> co_sentence(co_muse(f), "mortality_rate")]
                ELSE f
  /\ op' = "render_conclusion"
  /\ UNCHANGED <<df, countries, y0, y1, src, val>>

NextTakeaway == ConclusionScreeningTakeaway \/ ConclusionMortalityTakeaway

SpecTakeaway == InitTakeaway /\ [][NextTakeaway]_vars

\* C26: a takeaway sentence of the conclusion that quotes a number quotes a
\* real one: the screening sentence and the mortality sentence are written
\* only when the latest-year median is a number, and none is written when the
\* KPI shows the placeholder.
C26_SentenceQuotesNumber ==
  (op = "render_conclusion" /\ "sentence" \in DOMAIN out) =>
    /\ out.sentence.written => out.sentence.quoted.txt = "num"
    /\ out.kpi.value = Dash => ~out.sentence.written

-----------------------------------------------------------------------------
(* The three quintile canonicalizations on one raw value *)

\* render_conclusion, KPI 3, on one raw value
CoCanonQuintile ==
  /\ op = "load"
  /\ out' = co_canon_quintile(val)
  /\ op' = "co_canon_quintile"
  /\ UNCHANGED <<df, countries, y0, y1, src, val>>

NextCanon == OvCanonQuintile \/ DdCanonQuintile \/ CoCanonQuintile

SpecCanon == InitQuintile /\ [][NextCanon]_vars

\* the quintile a section takes a canonicalized value for: one of Q1..Q5, or
\* none (the sections select with .eq("Q1"), .isin(["Q1", "Q5"]) and the
\* pivot's "Q1" / "Q5" columns)
TakenFor(v) == IF v \in QuintileLabels THEN v ELSE NaCell

\* C27: the canonicalizations of the overview (_canon_quintile), of the deep
\* dives (_normalize_income) and of the conclusion's income-gap KPI agree:
\* every raw income_quintile value is mapped by all three to the same one of
\* Q1..Q5, or is unrecognized by all three.
C27_CanonicalizationsAgree ==
  op \in {"ov_canon_quintile", "dd_canon_quintile", "co_canon_quintile"} =>
    /\ TakenFor(out) = TakenFor(ov_canon_quintile(val))
    /\ TakenFor(out) = TakenFor(dd_canon_quintile(val))
    /\ TakenFor(out) = TakenFor(co_canon_quintile(val))

-----------------------------------------------------------------------------
(* Global filters of the application and the filters of the sections *)

\* app.py: codes, the countries of the loaded tables
app_codes(t) ==
  UNION {IF Empty(t[n]) \/ "country" \notin t[n].columns THEN {}
         ELSE {t[n].rows[i].country : i \in 1..Len(t[n].rows)} : n \in Datasets}

\* app.py: years of the loaded tables
app_years(t) ==
  UNION {IF Empty(t[n]) \/ "year" \notin t[n].columns THEN {} ELSE YearsOf(t[n].rows) : n \in Datasets}

\* a year slider over the years ys: a range inside the bounds, or
\* (None, None) when there is no year
YearSlider(ys) ==
  IF ys = {} THEN {<<Null, Null>>}
  ELSE {<<Some(w[1]), Some(w[2])>> :
          w \in {v \in Years \X Years :
                   /\ v[1] <= v[2]
                   /\ \E u \in ys : u <= v[1]
                   /\ \E u \in ys : u >= v[2]}}

\* app.py: the global sidebar; an empty selection becomes ["FR"]
app_global_filters(sel, yr) ==
  [countries |-> IF sel = {} THEN {"FR"} ELSE sel, y0 |-> yr[1], y1 |-> yr[2]]

InitGlobal ==
  /\ df \in [screening : ScreeningTables,
             mortality : {Table(ShareColumns, <<>>)},
             exam_income : {Table(ExamColumns, <<>>)}]
  /\ countries = {}
  /\ y0 = Null
  /\ y1 = Null
  /\ src = "load"
  /\ val = NaCell
  /\ op = "loaded"
  /\ out = Null

\* app.py lines 136-166: the global sidebar writes
\* st.session_state["global_filters"]
GlobalSidebar ==
  /\ op = "loaded"
  /\ \E sel \in SUBSET app_codes(df), yr \in YearSlider(app_years(df)) :
       /\ countries' = app_global_filters(sel, yr).countries
       /\ y0' = app_global_filters(sel, yr).y0
       /\ y1' = app_global_filters(sel, yr).y1
       /\ out' = [global_filters |-> app_global_filters(sel, yr)]
  /\ op' = "sidebar"
  /\ UNCHANGED <<df, src, val>>

\* app.py line 172: render_overview(df_screening, df_mortality,
\* df_exam_income) with the section's own widgets ov_countries and ov_years
OverviewOwnFilters ==
  /\ op = "sidebar"
  /\ \E sel \in SUBSET app_codes(df), yr \in YearSlider(app_years(df)) :
       /\ \E fs \in ov_apply_filters(df.screening, sel, yr[1], yr[2]),
             fm \in ov_apply_filters(df.mortality, sel, yr[1], yr[2]),
             fe \in ov_apply_filters(df.exam_income, sel, yr[1], yr[2]) :
            out' = [section |-> "overview", screening |-> fs, mortality |-> fm, exam_income |-> fe]
       /\ val' = [countries |-> sel, y0 |-> yr[1], y1 |-> yr[2]]
  /\ op' = "overview"
  /\ UNCHANGED <<df, countries, y0, y1, src>>

\* app.py line 173: render_deep_dives with the section's own sidebar
DeepDivesOwnFilters ==
  /\ op = "overview"
  /\ \E s \in DdSidebar(dd_normalized(df)) :
       /\ s.y0 \in Years /\ s.y1 \in Years
       /\ \E fs \in dd_sub(dd_normalized(df).screening, Some(s.y0), Some(s.y1), dd_sel_countries(s)),
             fm \in dd_sub(dd_normalized(df).mortality, Some(s.y0), Some(s.y1), dd_sel_countries(s)),
             fe \in dd_sub(dd_normalized(df).exam_income, Some(s.y0), Some(s.y1), dd_sel_countries(s)) :
            out' = [section |-> "deep_dives", screening |-> fs, mortality |-> fm, exam_income |-> fe]
       /\ val' = [countries |-> dd_sel_countries(s), y0 |-> Some(s.y0), y1 |-> Some(s.y1)]
  /\ op' = "deep_dives"
  /\ UNCHANGED <<df, countries, y0, y1, src>>

\* app.py line 174: render_conclusion with the section's own widgets
\* concl_countries and concl_years
ConclusionOwnFilters ==
  /\ op = "deep_dives"
  /\ \E sel \in SUBSET app_codes(df), yr \in YearSlider(app_years(df)) :
       /\ \E fs \in co_apply_filters(df.screening, sel, yr[1], yr[2]),
             fm \in co_apply_filters(df.mortality, sel, yr[1], yr[2]),
             fe \in co_apply_filters(df.exam_income, sel, yr[1], yr[2]) :
            out' = [section |-> "conclusion", screening |-> fs, mortality |-> fm, exam_income |-> fe]
       /\ val' = [countries |-> sel, y0 |-> yr[1], y1 |-> yr[2]]
  /\ op' = "conclusion"
  /\ UNCHANGED <<df, countries, y0, y1, src>>

NextGlobal == GlobalSidebar \/ OverviewOwnFilters \/ DeepDivesOwnFilters \/ ConclusionOwnFilters

SpecGlobal == InitGlobal /\ [][NextGlobal]_vars

\* C28: the global filters of the sidebar (global_filters: countries, y0, y1)
\* are applied by every section: every row the overview, the deep dives and
\* the conclusion aggregate or display has a country of the global selection
\* and a year inside the global year range.
C28_GlobalFiltersApplied ==
  op \in {"overview", "deep_dives", "conclusion"} =>
    \A n \in Datasets :
      (IsTable(out[n]) /\ ~Empty(out[n])) =>
        \A i \in 1..Len(out[n].rows) :
          /\ out[n].rows[i].country \in countries
          /\ InRange(out[n].rows[i], y0, y1)

-----------------------------------------------------------------------------
(* Exam rates of the cleaned exam-income table *)

\* C30: every row of the table returned by clean_exam_income has a non-null
\* exam_rate: rows with a missing observed value are dropped and no later
\* step of the cleaner brings a null exam_rate back (as from an observed value
\* that is present but not numeric).
C30_ExamRateNeverNull ==
  (op = "clean_exam_income" /\ IsTable(out)) =>
    \A i \in 1..Len(out.rows) : out.rows[i].exam_rate # Null

====
